---------------------------- MODULE Spec2Model ----------------------------
(***************************************************************************)
(* A model of src/src/dropzone.tsx: the file-acceptance policy, the        *)
(* event-to-file extractor, the reducer behind useDropzone and the drag,   *)
(* drop and file-dialog handlers that drive it.                            *)
(*                                                                         *)
(* Strings that the code inspects character by character (file names,     *)
(* MIME types, accept entries) are sequences of one-character strings.     *)
(* A number that may be undefined or Infinity is a record [k, n] with      *)
(* k \in {"num", "inf", "undef"}.                                          *)
(***************************************************************************)
EXTENDS Integers, Sequences, FiniteSets, Bags, TLC

VARIABLES
    cfg,          \* the props of this useDropzone instance (fixed per behaviour)
    state,        \* the reducer state (useReducer(reducer, initialState))
    dragTargets,  \* dragTargetsRef.current
    fsAccessApiWorks, \* fsAccessApiWorksRef.current
    inputEmpty,   \* inputRef.current.files.length = 0 (the hidden <input>)
    pending,      \* the promises in flight (a bag): extractions and the picker
    timers,       \* number of setTimeout callbacks of onWindowFocus not yet run
    last,         \* the handler or continuation that ran in the last step, with
                  \* its event (target, carried files or not, propagation stopped
                  \* or not) and the files it handed to setFiles
    calls,        \* the ordered effects (dispatches, observer calls) of that step
    attached,     \* the event targets that rootRef.current.contains()
    phase,        \* history: where a dragenter-then-drop scenario stands
    reads         \* the reading of a dropped directory: the batches its readers
                  \* have delivered and the promises that have resolved

vars == <<cfg, state, dragTargets, fsAccessApiWorks, inputEmpty, pending,
          timers, last, calls, attached, phase, reads>>

----------------------------------------------------------------------------
(* Values that may be undefined or Infinity                                *)

Num(n) == [k |-> "num", n |-> n]
Infinity == [k |-> "inf", n |-> 0]
Undef == [k |-> "undef", n |-> 0]

\* isDefined(value): value !== undefined && value !== null
isDefined(value) == value.k # "undef"

\* a > b for a number a and a number or Infinity b
Gt(a, b) == b.k = "num" /\ a.n > b.n

\* a < b for a number a and a number or Infinity b
Lt(a, b) == b.k = "inf" \/ a.n < b.n

----------------------------------------------------------------------------
(* Strings                                                                 *)

UpperChars == <<"A","B","C","D","E","F","G","H","I","J","K","L","M",
                "N","O","P","Q","R","S","T","U","V","W","X","Y","Z">>
LowerChars == <<"a","b","c","d","e","f","g","h","i","j","k","l","m",
                "n","o","p","q","r","s","t","u","v","w","x","y","z">>

LowerChar(c) ==
    IF \E i \in DOMAIN UpperChars : UpperChars[i] = c
    THEN LowerChars[CHOOSE i \in DOMAIN UpperChars : UpperChars[i] = c]
    ELSE c

\* String.prototype.toLowerCase
toLowerCase(s) == [i \in DOMAIN s |-> LowerChar(s[i])]

\* String.prototype.endsWith
endsWith(s, suffix) ==
    /\ Len(suffix) <= Len(s)
    /\ SubSeq(s, Len(s) - Len(suffix) + 1, Len(s)) = suffix

\* String.prototype.trim (blanks only)
RECURSIVE trimStart(_)
trimStart(s) == IF s # <<>> /\ Head(s) = " " THEN trimStart(Tail(s)) ELSE s

RECURSIVE trimEnd(_)
trimEnd(s) ==
    IF s # <<>> /\ s[Len(s)] = " " THEN trimEnd(SubSeq(s, 1, Len(s) - 1)) ELSE s

trim(s) == trimEnd(trimStart(s))

\* s.replace(/\/.*$/, ''): everything from the first '/' on is removed
stripFromSlash(s) ==
    IF \E i \in DOMAIN s : s[i] = "/"
    THEN SubSeq(s, 1, (CHOOSE i \in DOMAIN s :
                          s[i] = "/" /\ \A j \in 1..(i - 1) : s[j] # "/") - 1)
    ELSE s

\* name.lastIndexOf('.') (1-based, 0 when there is none)
lastIndexOfDot(s) ==
    IF \E i \in DOMAIN s : s[i] = "."
    THEN CHOOSE i \in DOMAIN s : s[i] = "." /\ \A j \in (i + 1)..Len(s) : s[j] # "."
    ELSE 0

----------------------------------------------------------------------------
(* MIME types and names used by the model                                  *)

ImagePng == <<"i","m","a","g","e","/","p","n","g">>
TextPlain == <<"t","e","x","t","/","p","l","a","i","n">>
MozFile == <<"a","p","p","l","i","c","a","t","i","o","n","/",
             "x","-","m","o","z","-","f","i","l","e">>

\* COMMON_MIME_TYPES, the entries for the extensions the model's files carry
COMMON_MIME_TYPES(ext) ==
    CASE ext = <<"p","n","g">> -> ImagePng
      [] ext = <<"t","x","t">> -> TextPlain
      [] OTHER -> <<>>

\* FILES_TO_IGNORE
FILES_TO_IGNORE ==
    { <<".","D","S","_","S","t","o","r","e">>,
      <<"T","h","u","m","b","s",".","d","b">> }

----------------------------------------------------------------------------
(* accepts / fileAccepted / fileMatchSize / allFilesAccepted               *)

\* (mutant of acceptsEntry: an extension is compared with the whole name)
acceptsEntryWholeName(fileName, mimeType, baseMimeType, type) ==
    LET validType == toLowerCase(trim(type))
    IN  IF validType # <<>> /\ validType[1] = "."
        THEN toLowerCase(fileName) = validType
        ELSE IF endsWith(validType, <<"/","*">>)
             THEN baseMimeType = stripFromSlash(validType)
             ELSE mimeType = validType

\* One entry of acceptedFilesArray against the file (the callback of some()).
acceptsEntry(fileName, mimeType, baseMimeType, type) ==
    LET validType == toLowerCase(trim(type))
    IN  IF validType # <<>> /\ validType[1] = "."
        THEN endsWith(toLowerCase(fileName), validType)
        ELSE IF endsWith(validType, <<"/","*">>)
             THEN baseMimeType = stripFromSlash(validType)
             ELSE mimeType = validType

\* accepts(file, acceptedFiles).  accept = [set |-> BOOLEAN, types |-> Seq(string)]:
\* set is FALSE for undefined; types is the attribute split at ',' and is << >>
\* for the empty attribute '', which is falsy like undefined.
accepts(file, accept) ==
    IF accept.set /\ accept.types # <<>>
    THEN LET fileName == file.name
             mimeType == toLowerCase(file.type)
             baseMimeType == stripFromSlash(mimeType)
         IN  \E i \in DOMAIN accept.types :
                 acceptsEntry(fileName, mimeType, baseMimeType, accept.types[i])
    ELSE TRUE

ErrInvalidType == [code |-> "file-invalid-type", arg |-> Undef]
ErrTooLarge(maxSize) == [code |-> "file-too-large", arg |-> maxSize]
ErrTooSmall(minSize) == [code |-> "file-too-small", arg |-> minSize]
TOO_MANY_FILES_REJECTION == [code |-> "too-many-files", arg |-> Undef]

\* fileAccepted(file, accept) -> [ok, err]; err is <<>> for null
fileAccepted(file, accept) ==
    LET isAcceptable == file.type = MozFile \/ accepts(file, accept)
    IN  [ok |-> isAcceptable,
         err |-> IF isAcceptable THEN <<>> ELSE <<ErrInvalidType>>]

\* (mutant of fileMatchSize: the lower bound is tested first)
fileMatchSizeSmallFirst(file, minSize, maxSize) ==
    IF isDefined(file.size)
    THEN IF isDefined(minSize) /\ Lt(file.size, minSize)
         THEN [ok |-> FALSE, err |-> <<ErrTooSmall(minSize)>>]
         ELSE IF isDefined(maxSize) /\ Gt(file.size, maxSize)
              THEN [ok |-> FALSE, err |-> <<ErrTooLarge(maxSize)>>]
              ELSE [ok |-> TRUE, err |-> <<>>]
    ELSE [ok |-> TRUE, err |-> <<>>]

\* fileMatchSize(file, minSize, maxSize) -> [ok, err]
fileMatchSize(file, minSize, maxSize) ==
    IF isDefined(file.size)
    THEN IF isDefined(minSize) /\ isDefined(maxSize)
         THEN IF Gt(file.size, maxSize)
              THEN [ok |-> FALSE, err |-> <<ErrTooLarge(maxSize)>>]
              ELSE IF Lt(file.size, minSize)
                   THEN [ok |-> FALSE, err |-> <<ErrTooSmall(minSize)>>]
                   ELSE [ok |-> TRUE, err |-> <<>>]
         ELSE IF isDefined(minSize) /\ Lt(file.size, minSize)
              THEN [ok |-> FALSE, err |-> <<ErrTooSmall(minSize)>>]
              ELSE IF isDefined(maxSize) /\ Gt(file.size, maxSize)
                   THEN [ok |-> FALSE, err |-> <<ErrTooLarge(maxSize)>>]
                   ELSE [ok |-> TRUE, err |-> <<>>]
    ELSE [ok |-> TRUE, err |-> <<>>]

----------------------------------------------------------------------------
(* The custom validator                                                    *)

CustomErr1 == [code |-> "custom-1", arg |-> Undef]
CustomErr2 == [code |-> "custom-2", arg |-> Undef]

\* validator ? validator(file) : null.  A supplied validator objects to the
\* files whose flagged attribute is TRUE; what it returns for them is
\* validator's kind: one FileError, an array of two, or an empty array.
\* truthy is the truthiness of the returned value, errs what
\* errors.concat(customErrors) appends.
customErrorsOf(file, validator) ==
    IF validator = "null" \/ ~file.flagged
    THEN [truthy |-> FALSE, errs |-> <<>>]
    ELSE CASE validator = "one" -> [truthy |-> TRUE, errs |-> <<CustomErr1>>]
           [] validator = "many" -> [truthy |-> TRUE, errs |-> <<CustomErr1, CustomErr2>>]
           [] validator = "empty" -> [truthy |-> TRUE, errs |-> <<>>]

\* the test of files.every() in allFilesAccepted and of forEach in setFiles
filePasses(file, c) ==
    /\ fileAccepted(file, c.accept).ok
    /\ fileMatchSize(file, c.minSize, c.maxSize).ok
    /\ ~customErrorsOf(file, c.validator).truthy

\* (mutant of tooMany: the maxFiles comparison is off by one)
tooManyOffByOne(n, c) ==
    \/ (~c.multiple /\ n > 1)
    \/ (c.multiple /\ c.maxFiles >= 1 /\ n > c.maxFiles + 1)

\* the cardinality test shared by allFilesAccepted and setFiles
tooMany(n, c) ==
    \/ (~c.multiple /\ n > 1)
    \/ (c.multiple /\ c.maxFiles >= 1 /\ n > c.maxFiles)

\* (mutant of allFilesAccepted: the cardinality test is left out)
allFilesAcceptedAnyCount(files, c) ==
    \A i \in DOMAIN files : filePasses(files[i], c)

allFilesAccepted(files, c) ==
    IF tooMany(Len(files), c)
    THEN FALSE
    ELSE \A i \in DOMAIN files : filePasses(files[i], c)

----------------------------------------------------------------------------
(* setFiles: the partition of a batch                                      *)

\* the errors of a rejected file: [acceptError, sizeError].concat(customErrors)
\* with the nulls filtered out
rejectionErrors(file, c) ==
    fileAccepted(file, c.accept).err
      \o fileMatchSize(file, c.minSize, c.maxSize).err
      \o customErrorsOf(file, c.validator).errs

\* (mutant of partitionFiles: unshift instead of push)
RECURSIVE partitionFilesPrepending(_, _, _)
partitionFilesPrepending(files, c, acc) ==
    IF files = <<>>
    THEN acc
    ELSE LET file == Head(files)
         IN  partitionFilesPrepending(Tail(files), c,
                 IF filePasses(file, c)
                 THEN [acc EXCEPT !.acceptedFiles = <<file>> \o @]
                 ELSE [acc EXCEPT !.fileRejections =
                          <<[file |-> file, errors |-> rejectionErrors(file, c)]>> \o @])

\* files.forEach(...): acceptedFiles and fileRejections after the loop
RECURSIVE partitionFiles(_, _, _)
partitionFiles(files, c, acc) ==
    IF files = <<>>
    THEN acc
    ELSE LET file == Head(files)
         IN  partitionFiles(Tail(files), c,
                 IF filePasses(file, c)
                 THEN [acc EXCEPT !.acceptedFiles = Append(@, file)]
                 ELSE [acc EXCEPT !.fileRejections =
                          Append(@, [file |-> file, errors |-> rejectionErrors(file, c)])])

\* (mutant of rejectTooMany: the accepted files are emptied but not rejected)
rejectTooManyDropping(part, c) ==
    IF tooMany(Len(part.acceptedFiles), c)
    THEN [acceptedFiles |-> <<>>, fileRejections |-> part.fileRejections]
    ELSE part

\* (mutant of rejectTooMany: the files within the limit are kept)
rejectTooManyTruncating(part, c) ==
    IF tooMany(Len(part.acceptedFiles), c)
    THEN LET limit == IF c.multiple THEN c.maxFiles ELSE 1
             n == Len(part.acceptedFiles)
         IN  [acceptedFiles |-> SubSeq(part.acceptedFiles, 1, limit),
              fileRejections |-> part.fileRejections \o
                  [i \in 1..(n - limit) |->
                      [file |-> part.acceptedFiles[limit + i],
                       errors |-> <<TOO_MANY_FILES_REJECTION>>]]]
    ELSE part

\* the block that rejects everything when there are too many accepted files
rejectTooMany(part, c) ==
    IF tooMany(Len(part.acceptedFiles), c)
    THEN [acceptedFiles |-> <<>>,
          fileRejections |-> part.fileRejections \o
              [i \in DOMAIN part.acceptedFiles |->
                  [file |-> part.acceptedFiles[i],
                   errors |-> <<TOO_MANY_FILES_REJECTION>>]]]
    ELSE part

\* acceptedFiles and fileRejections as setFiles dispatches them
evaluateFiles(files, c) ==
    rejectTooMany(
        partitionFiles(files, c, [acceptedFiles |-> <<>>, fileRejections |-> <<>>]), c)

----------------------------------------------------------------------------
(* The reducer                                                             *)

initialState ==
    [isFocused |-> FALSE,
     isFileDialogActive |-> FALSE,
     isDragActive |-> FALSE,
     isDragAccept |-> FALSE,
     isDragReject |-> FALSE,
     acceptedFiles |-> <<>>,
     fileRejections |-> <<>>]

\* (mutant of reducer: reset keeps the files of the last batch)
reducerResetKeepingFiles(s, action) ==
    CASE action.type = "focus" -> [s EXCEPT !.isFocused = TRUE]
      [] action.type = "blur" -> [s EXCEPT !.isFocused = FALSE]
      [] action.type = "openDialog" -> [initialState EXCEPT !.isFileDialogActive = TRUE]
      [] action.type = "closeDialog" -> [s EXCEPT !.isFileDialogActive = FALSE]
      [] action.type = "setDraggedFiles" ->
            [s EXCEPT !.isDragActive = action.isDragActive,
                      !.isDragAccept = action.isDragAccept,
                      !.isDragReject = action.isDragReject]
      [] action.type = "setFiles" ->
            [s EXCEPT !.acceptedFiles = action.acceptedFiles,
                      !.fileRejections = action.fileRejections]
      [] action.type = "reset" ->
            [initialState EXCEPT !.acceptedFiles = s.acceptedFiles,
                                 !.fileRejections = s.fileRejections]
      [] OTHER -> s

\* (mutant of reducer: blur also ends the drag)
reducerBlurEndingDrag(s, action) ==
    CASE action.type = "focus" -> [s EXCEPT !.isFocused = TRUE]
      [] action.type = "blur" -> [s EXCEPT !.isFocused = FALSE, !.isDragActive = FALSE]
      [] action.type = "openDialog" -> [initialState EXCEPT !.isFileDialogActive = TRUE]
      [] action.type = "closeDialog" -> [s EXCEPT !.isFileDialogActive = FALSE]
      [] action.type = "setDraggedFiles" ->
            [s EXCEPT !.isDragActive = action.isDragActive,
                      !.isDragAccept = action.isDragAccept,
                      !.isDragReject = action.isDragReject]
      [] action.type = "setFiles" ->
            [s EXCEPT !.acceptedFiles = action.acceptedFiles,
                      !.fileRejections = action.fileRejections]
      [] action.type = "reset" -> initialState
      [] OTHER -> s

reducer(s, action) ==
    CASE action.type = "focus" -> [s EXCEPT !.isFocused = TRUE]
      [] action.type = "blur" -> [s EXCEPT !.isFocused = FALSE]
      [] action.type = "openDialog" -> [initialState EXCEPT !.isFileDialogActive = TRUE]
      [] action.type = "closeDialog" -> [s EXCEPT !.isFileDialogActive = FALSE]
      [] action.type = "setDraggedFiles" ->
            [s EXCEPT !.isDragActive = action.isDragActive,
                      !.isDragAccept = action.isDragAccept,
                      !.isDragReject = action.isDragReject]
      [] action.type = "setFiles" ->
            [s EXCEPT !.acceptedFiles = action.acceptedFiles,
                      !.fileRejections = action.fileRejections]
      [] action.type = "reset" -> initialState
      [] OTHER -> s

----------------------------------------------------------------------------
(* Files, events and the extractor                                         *)

NoPath == [set |-> FALSE, v |-> <<>>]

\* A File as the browser hands it over.  flagged is the verdict of a supplied
\* custom validator on this object (see customErrorsOf).
RawFile(id, name, type, size, flagged) ==
    [id |-> id, name |-> name, type |-> type, size |-> Num(size),
     flagged |-> flagged, path |-> NoPath]

FileA == RawFile(1, <<"a",".","p","n","g">>, ImagePng, 1, FALSE)
FileB == RawFile(2, <<"b",".","t","x","t">>, TextPlain, 3, FALSE)
FileC == RawFile(3, <<"c",".","P","N","G">>, <<>>, 2, TRUE)
FileD == RawFile(4, <<"d",".","p","n","g">>, ImagePng, 2, FALSE)

\* withMimeType(file): a file without a type gets the type of its extension
withMimeType(file) ==
    LET dot == lastIndexOfDot(file.name)
        hasExtension == file.name # <<>> /\ dot # 0
    IN  IF hasExtension /\ file.type = <<>>
        THEN LET ext == toLowerCase(SubSeq(file.name, dot + 1, Len(file.name)))
                 type == COMMON_MIME_TYPES(ext)
             IN  IF type # <<>> THEN [file EXCEPT !.type = type] ELSE file
        ELSE file

\* toFileWithPath(file) without a path argument and without webkitRelativePath
toFileWithPath(file) ==
    LET f == withMimeType(file)
    IN  IF ~f.path.set
        THEN [f EXCEPT !.path = [set |-> TRUE, v |-> file.name]]
        ELSE f

\* A DataTransferItem of kind 'file': it has a type, but no name and no size
toItem(file) ==
    [file EXCEPT !.name = <<>>, !.size = Undef]

\* (mutant of notIgnored: only the first name of the list is looked for)
notIgnoredFirstOnly(file) == file.name # <<".","D","S","_","S","t","o","r","e">>

notIgnored(file) == file.name \notin FILES_TO_IGNORE

\* files.filter((file) => FILES_TO_IGNORE.indexOf(file.name) === -1)
noIgnoredFiles(files) == SelectSeq(files, notIgnored)

\* fromEvent(evt), by the kind of the event, for a payload of plain files:
\*   dragenter  getDataTransferFiles with type # 'drop': the items
\*   drop       getDataTransferFiles with type = 'drop'
\*   change     getInputFiles
\*   handles    getFsHandleFiles
fromEvent(kind, files) ==
    CASE kind = "dragenter" -> [i \in DOMAIN files |-> toItem(files[i])]
      [] kind = "drop" -> noIgnoredFiles([i \in DOMAIN files |-> toFileWithPath(files[i])])
      [] kind = "change" -> [i \in DOMAIN files |-> toFileWithPath(files[i])]
      [] kind = "handles" -> [i \in DOMAIN files |-> toFileWithPath(files[i])]
      [] OTHER -> <<>>

----------------------------------------------------------------------------
(* The extractor on a DataTransfer that may hold directories.  An entry is  *)
(* a file (RawFile) or a directory [isDirectory, name, batches], batches     *)
(* being what the successive calls of readEntries hand over.  An array of    *)
(* the code is [isArray, items], to tell it from a file.                     *)

DirEntry(name, batches) ==
    [isDirectory |-> TRUE, name |-> name, batches |-> batches]

isDirectory(entry) == "isDirectory" \in DOMAIN entry

Arr(items) == [isArray |-> TRUE, items |-> items]

isArray(v) == "isArray" \in DOMAIN v

\* toFileWithPath(file, path) with a path argument
toFileWithPathAt(file, path) ==
    LET f == withMimeType(file)
    IN  IF ~f.path.set
        THEN [f EXCEPT !.path = [set |-> TRUE, v |-> path]]
        ELSE f

\* entry.fullPath of an entry called name in the directory at parent
fullPath(parent, name) == parent \o <<"/">> \o name

\* fromFileEntry(entry): entry.file(), then toFileWithPath(file, entry.fullPath)
fromFileEntry(entry, parent) ==
    toFileWithPathAt(entry, fullPath(parent, entry.name))

\* fromEntry(entry) and fromDirEntry(entry): the array of the batches read,
\* each the array of what fromEntry makes of its entries
RECURSIVE fromEntry(_, _)
fromEntry(entry, parent) ==
    IF isDirectory(entry)
    THEN Arr([b \in DOMAIN entry.batches |->
                Arr([i \in DOMAIN entry.batches[b] |->
                        fromEntry(entry.batches[b][i],
                                  fullPath(parent, entry.name))])])
    ELSE fromFileEntry(entry, parent)

\* fromDataTransferItem(item): item.getAsFile(), then toFileWithPath(file)
fromDataTransferItem(item) == toFileWithPath(item.entry)

\* toFilePromises(item), once the promise has resolved
toFilePromises(item) ==
    IF isDirectory(item.entry)
    THEN fromEntry(item.entry, <<>>)
    ELSE fromDataTransferItem(item)

\* flatten(items)
RECURSIVE flatten(_)
flatten(items) ==
    IF items = <<>>
    THEN <<>>
    ELSE LET files == items[Len(items)]
         IN  flatten(SubSeq(items, 1, Len(items) - 1))
               \o (IF isArray(files) THEN flatten(files.items) ELSE <<files>>)

isKindFileItem(item) == item.kind = "file"

\* getDataTransferFiles(dt, type), dt = [hasItems, items, files]: hasItems is
\* FALSE for the browsers without dataTransfer.items
getDataTransferFiles(dt, type) ==
    IF dt.hasItems
    THEN LET items == SelectSeq(dt.items, isKindFileItem)
         IN  IF type # "drop"
             THEN items
             ELSE noIgnoredFiles(flatten([i \in DOMAIN items |->
                                             toFilePromises(items[i])]))
    ELSE noIgnoredFiles([i \in DOMAIN dt.files |-> toFileWithPath(dt.files[i])])

----------------------------------------------------------------------------
(* Effects of a step, and the pieces the handlers share                    *)

\* One effect of a handler: a dispatch or an observer call, with the
\* accepted files (a) and the rejections (r) it is given, if any.
Eff(op, a, r) == [op |-> op, a |-> a, r |-> r]
Did(op) == Eff(op, <<>>, <<>>)

StepOf(h, hasFiles, files, stopped, target) ==
    [h |-> h, hasFiles |-> hasFiles, files |-> files, stopped |-> stopped,
     target |-> target]
Step(h, hasFiles) == StepOf(h, hasFiles, <<>>, FALSE, "none")
StepSetFiles(h, files, stopped) == StepOf(h, TRUE, files, stopped, "none")

RemoveAt(s, i) == SubSeq(s, 1, i - 1) \o SubSeq(s, i + 1, Len(s))

\* isPropagationStopped(event) && !noDragEventsBubbling, in a continuation
\* (mutant of suppressed: the continuation never looks at the event)
suppressedNever(p) == FALSE

suppressed(p) == p.stopped /\ ~cfg.noDragEventsBubbling

\* (mutant of setFilesCalls: the two conditional observers test the other list)
setFilesCallsSwapped(part) ==
    <<Eff("dispatch:setFiles", part.acceptedFiles, part.fileRejections),
      Eff("onDrop", part.acceptedFiles, part.fileRejections)>>
    \o (IF Len(part.acceptedFiles) > 0
        THEN <<Eff("onDropRejected", <<>>, part.fileRejections)>> ELSE <<>>)
    \o (IF Len(part.fileRejections) > 0
        THEN <<Eff("onDropAccepted", part.acceptedFiles, <<>>)>> ELSE <<>>)

\* what setFiles does after computing the partition: the dispatch, then onDrop,
\* onDropRejected and onDropAccepted
setFilesCalls(part) ==
    <<Eff("dispatch:setFiles", part.acceptedFiles, part.fileRejections),
      Eff("onDrop", part.acceptedFiles, part.fileRejections)>>
    \o (IF Len(part.fileRejections) > 0
        THEN <<Eff("onDropRejected", <<>>, part.fileRejections)>> ELSE <<>>)
    \o (IF Len(part.acceptedFiles) > 0
        THEN <<Eff("onDropAccepted", part.acceptedFiles, <<>>)>> ELSE <<>>)

\* the state after setFiles(files, event)
\* (mutant of setFilesState: a batch is kept once one has been finalized)
setFilesStateKeepingFirst(s, files) ==
    LET part == evaluateFiles(files, cfg)
    IN  IF s.acceptedFiles # <<>> \/ s.fileRejections # <<>>
        THEN s
        ELSE reducer(s, [type |-> "setFiles",
                         acceptedFiles |-> part.acceptedFiles,
                         fileRejections |-> part.fileRejections])

setFilesState(s, files) ==
    LET part == evaluateFiles(files, cfg)
    IN  reducer(s, [type |-> "setFiles",
                    acceptedFiles |-> part.acceptedFiles,
                    fileRejections |-> part.fileRejections])

----------------------------------------------------------------------------
(* History of a dragenter-then-drop scenario                               *)

Phase(s, files) == [s |-> s, files |-> files]
OtherPhase == Phase("other", <<>>)
DroppedPhases == {"dropped", "droppedEarly", "suppressed"}

\* idle -dragenter-> entered -its continuation-> probed -drop-> dropped;
\* entered -drop-> droppedEarly; a drop whose propagation is stopped while
\* its extraction is pending: suppressed; any other event: other.  A focus
\* or blur before the dragenter, and a dragover at any time, change nothing.
phaseAfter(ev, kind, hasFiles, files) ==
    CASE ev = "focus" -> IF phase.s = "idle" THEN phase ELSE OtherPhase
      [] ev = "dragover" -> phase
      [] ev = "dragenter" ->
            IF phase.s = "idle"
            THEN Phase(IF hasFiles THEN "entered" ELSE "probed", <<>>)
            ELSE OtherPhase
      [] ev = "resolveEnter" ->
            IF phase.s = "entered" THEN Phase("probed", <<>>)
            ELSE IF phase.s \in DroppedPhases THEN phase ELSE OtherPhase
      [] ev = "drop" ->
            IF kind = "drop" /\ phase.s = "probed" THEN Phase("dropped", files)
            ELSE IF kind = "drop" /\ phase.s = "entered" THEN Phase("droppedEarly", files)
            ELSE OtherPhase
      [] ev = "resolveDrop" ->
            IF phase.s \in DroppedPhases THEN phase ELSE OtherPhase
      [] ev = "stop" ->
            IF phase.s \in {"entered"} \cup DroppedPhases
            THEN IF kind = "dragenter" THEN phase ELSE Phase("suppressed", phase.files)
            ELSE OtherPhase
      [] OTHER -> OtherPhase

----------------------------------------------------------------------------
(* fromDirEntry as a process.  A node of the dropped directory is named by  *)
(* its position: << >> for the directory itself, and the position of its    *)
(* directory followed by <<b, i>> for entry i of batch b.  reads.delivered  *)
(* counts the callbacks of reader.readEntries that have run for a           *)
(* directory (one more than its batches: the empty batch has come),         *)
(* reads.settled holds the value of every promise that has resolved, and    *)
(* reads.order lists the promises in the order in which they resolved.      *)
NoReads == [tree |-> <<>>, delivered |-> <<>>, settled |-> <<>>, order |-> <<>>]

Unsettled == [set |-> FALSE]

SettledAs(v) == [set |-> TRUE, v |-> v]

parentOf(p) == SubSeq(p, 1, Len(p) - 2)

RECURSIVE nodeAt(_, _)
nodeAt(entry, p) ==
    IF p = <<>>
    THEN entry
    ELSE nodeAt(entry.batches[p[1]][p[2]], SubSeq(p, 3, Len(p)))

RECURSIVE pathsOf(_, _)
pathsOf(entry, p) ==
    IF isDirectory(entry)
    THEN {p} \cup UNION { UNION { pathsOf(entry.batches[b][i], p \o <<b, i>>) :
                                    i \in DOMAIN entry.batches[b] } :
                            b \in DOMAIN entry.batches }
    ELSE {p}

\* entry.fullPath of the node at p
RECURSIVE fullPathAt(_, _)
fullPathAt(tree, p) ==
    IF p = <<>>
    THEN fullPath(<<>>, tree.name)
    ELSE fullPath(fullPathAt(tree, parentOf(p)), nodeAt(tree, p).name)

\* fromEntry has been called on the node: it is the dropped directory, or
\* the batch it is in has been delivered
started(p) ==
    IF p = <<>> THEN TRUE ELSE reads.delivered[parentOf(p)] >= p[Len(p) - 1]

\* reader.readEntries calls back with the next batch of directory d, the last
\* of them empty; a batch that is not empty makes readEntries be called again
readEntries(d) ==
    /\ isDirectory(nodeAt(reads.tree, d))
    /\ started(d)
    /\ reads.delivered[d] <= Len(nodeAt(reads.tree, d).batches)
    /\ reads' = [reads EXCEPT !.delivered[d] = @ + 1]
    /\ last' = StepOf("readEntries", TRUE, <<>>, FALSE, "none")
    /\ calls' = <<>>

\* entry.file calls back with the File of the file entry f
entryFile(f) ==
    /\ ~isDirectory(nodeAt(reads.tree, f))
    /\ started(f)
    /\ ~reads.settled[f].set
    /\ reads' = [reads EXCEPT
                   !.settled[f] =
                       SettledAs(fromFileEntry(nodeAt(reads.tree, f),
                                               fullPathAt(reads.tree, parentOf(f)))),
                   !.order = Append(@, f)]
    /\ last' = StepOf("fromFileEntry", TRUE, <<>>, FALSE, "none")
    /\ calls' = <<>>

\* the position in reads.order of the promise of p
completionOf(p) == CHOOSE k \in DOMAIN reads.order : reads.order[k] = p

\* (mutant of allOf: the values come in the order in which the promises resolved)
allOfAsCompleted(d, b) ==
    LET n == Len(nodeAt(reads.tree, d).batches[b])
        rank(i) == Cardinality({ j \in 1..n :
                       completionOf(d \o <<b, j>>) <= completionOf(d \o <<b, i>>) })
    IN  Arr([k \in 1..n |->
                reads.settled[d \o <<b, CHOOSE i \in 1..n : rank(i) = k>>].v])

\* Promise.all(batch.map(fromEntry)): the values of the entries of batch b of
\* directory d, each at the index of its entry
allOf(d, b) ==
    Arr([i \in DOMAIN nodeAt(reads.tree, d).batches[b] |->
            reads.settled[d \o <<b, i>>].v])

\* await Promise.all(entries): every promise of every batch has resolved
allEntriesSettled(d) ==
    \A b \in DOMAIN nodeAt(reads.tree, d).batches :
        \A i \in DOMAIN nodeAt(reads.tree, d).batches[b] :
            reads.settled[d \o <<b, i>>].set

\* the callback of the empty batch resolves the promise of directory d with
\* Promise.all(entries)
dirResolved(d) ==
    /\ isDirectory(nodeAt(reads.tree, d))
    /\ started(d)
    /\ reads.delivered[d] = Len(nodeAt(reads.tree, d).batches) + 1
    /\ allEntriesSettled(d)
    /\ ~reads.settled[d].set
    /\ reads' = [reads EXCEPT
                   !.settled[d] =
                       SettledAs(Arr([b \in DOMAIN nodeAt(reads.tree, d).batches |->
                                         allOf(d, b)])),
                   !.order = Append(@, d)]
    /\ last' = StepOf("fromDirEntry", TRUE,
                      IF d = <<>> THEN flatten(<<reads'.settled[d].v>>) ELSE <<>>,
                      FALSE, "none")
    /\ calls' = <<>>

----------------------------------------------------------------------------
(* The handlers.  An event is [hasFiles, files, target]: hasFiles is        *)
(* isEvtWithFiles(event), files the payload, target the event's target.     *)
(* A promise in flight is [kind, files, stopped]: kind is the event it      *)
(* belongs to, stopped is isPropagationStopped(event).                      *)

\* (mutant of composeEventHandlers: every handler runs, stopped or not)
composeEventHandlersAll(fns, stopped) == [i \in DOMAIN fns |-> fns[i] # "null"]

\* composeEventHandlers(...fns)(event): which of fns run.  A handler is
\* "null" (none given), "plain" or "stops" (it calls event.stopPropagation());
\* stopped is isPropagationStopped(event) when the composed handler is called.
RECURSIVE composeEventHandlers(_, _)
composeEventHandlers(fns, stopped) ==
    IF fns = <<>>
    THEN <<>>
    ELSE LET fn == Head(fns)
             runs == ~stopped /\ fn # "null"
             after == stopped \/ (runs /\ fn = "stops")
         IN  <<runs>> \o (IF after
                          THEN [i \in 1..Len(fns) - 1 |-> FALSE]
                          ELSE composeEventHandlers(Tail(fns), after))

Event(hasFiles, files, target) ==
    [hasFiles |-> hasFiles, files |-> files, target |-> target]

\* (mutant of isEvtWithFiles: every event is taken to carry files)
isEvtWithFilesAlways(event) == TRUE

\* isEvtWithFiles(event): some type of the payload is 'Files' or
\* 'application/x-moz-file'
isEvtWithFiles(event) == event.hasFiles

InFlight(kind, files, stopped) ==
    [kind |-> kind, files |-> files, stopped |-> stopped]

\* the promises in flight with p added, with p settled, with q in place of p
Started(p) == pending (+) SetToBag({p})
Settled(p) == pending (-) SetToBag({p})
Replaced(p, q) == (pending (-) SetToBag({p})) (+) SetToBag({q})
InFlightNow == BagToSet(pending)

onFocusCb ==
    /\ state' = reducer(state, [type |-> "focus"])
    /\ last' = Step("onFocusCb", FALSE)
    /\ calls' = <<Did("dispatch:focus")>>
    /\ phase' = phaseAfter("focus", "", FALSE, <<>>)
    /\ UNCHANGED <<reads, cfg, dragTargets, fsAccessApiWorks, inputEmpty, pending,
                   timers, attached>>

onBlurCb ==
    /\ state' = reducer(state, [type |-> "blur"])
    /\ last' = Step("onBlurCb", FALSE)
    /\ calls' = <<Did("dispatch:blur")>>
    /\ phase' = phaseAfter("focus", "", FALSE, <<>>)
    /\ UNCHANGED <<reads, cfg, dragTargets, fsAccessApiWorks, inputEmpty, pending,
                   timers, attached>>

onDragEnterCb(event) ==
    /\ dragTargets' = Append(dragTargets, event.target)
    /\ pending' = IF isEvtWithFiles(event)
                  THEN Started(InFlight("dragenter", event.files,
                                        cfg.noDragEventsBubbling))
                  ELSE pending
    /\ last' = Step("onDragEnterCb", event.hasFiles)
    /\ calls' = <<>>
    /\ phase' = phaseAfter("dragenter", "dragenter", event.hasFiles, <<>>)
    /\ UNCHANGED <<reads, cfg, state, fsAccessApiWorks, inputEmpty, timers, attached>>

\* the .then() of onDragEnterCb for the promise p in flight
\* (mutant of setDraggedFiles: the probe is active only while a target is hovered)
setDraggedFilesWhileHovered(files) ==
    LET fileCount == Len(files)
        isDragAccept == fileCount > 0 /\ allFilesAccepted(files, cfg)
        isDragReject == fileCount > 0 /\ ~isDragAccept
    IN  [type |-> "setDraggedFiles",
         isDragActive |-> dragTargets # <<>>,
         isDragAccept |-> isDragAccept,
         isDragReject |-> isDragReject]

\* (mutant of setDraggedFiles: any file at all makes the drag a rejected one)
setDraggedFilesRejectAny(files) ==
    LET fileCount == Len(files)
        isDragAccept == fileCount > 0 /\ allFilesAccepted(files, cfg)
    IN  [type |-> "setDraggedFiles",
         isDragActive |-> TRUE,
         isDragAccept |-> isDragAccept,
         isDragReject |-> fileCount > 0]

\* the action the continuation of a dragenter dispatches for the files found
setDraggedFiles(files) ==
    LET fileCount == Len(files)
        isDragAccept == fileCount > 0 /\ allFilesAccepted(files, cfg)
        isDragReject == fileCount > 0 /\ ~isDragAccept
    IN  [type |-> "setDraggedFiles",
         isDragActive |-> TRUE,
         isDragAccept |-> isDragAccept,
         isDragReject |-> isDragReject]

dragEnterResolved(p) ==
    LET files == fromEvent("dragenter", p.files)
    IN  /\ p.kind = "dragenter"
        /\ pending' = Settled(p)
        /\ last' = StepOf("dragEnterResolved", TRUE, files, p.stopped, "none")
        /\ phase' = phaseAfter("resolveEnter", p.kind, TRUE, <<>>)
        /\ IF suppressed(p)
           THEN /\ calls' = <<>>
                /\ UNCHANGED state
           ELSE /\ state' = reducer(state, setDraggedFiles(files))
                /\ calls' = <<Did("dispatch:setDraggedFiles"), Did("onDragEnter")>>
        /\ UNCHANGED <<reads, cfg, dragTargets, fsAccessApiWorks, inputEmpty, timers,
                       attached>>

\* (mutant of onDragOverCb: the handler marks the drag as active)
onDragOverCbActivating(event) ==
    /\ last' = Step("onDragOverCb", event.hasFiles)
    /\ calls' = IF isEvtWithFiles(event)
                THEN <<Did("dropEffect=copy"), Did("onDragOver")>>
                ELSE <<>>
    /\ phase' = phaseAfter("dragover", "", event.hasFiles, <<>>)
    /\ state' = [state EXCEPT !.isDragActive = TRUE]
    /\ UNCHANGED <<reads, cfg, dragTargets, fsAccessApiWorks, inputEmpty,
                   pending, timers, attached>>

onDragOverCb(event) ==
    /\ last' = Step("onDragOverCb", event.hasFiles)
    /\ calls' = IF isEvtWithFiles(event)
                THEN <<Did("dropEffect=copy"), Did("onDragOver")>>
                ELSE <<>>
    /\ phase' = phaseAfter("dragover", "", event.hasFiles, <<>>)
    /\ UNCHANGED <<reads, cfg, state, dragTargets, fsAccessApiWorks, inputEmpty,
                   pending, timers, attached>>

\* targets.indexOf(target) (1-based, 0 when absent)
indexOf(targets, target) ==
    IF \E i \in DOMAIN targets : targets[i] = target
    THEN CHOOSE i \in DOMAIN targets :
             targets[i] = target /\ \A j \in 1..(i - 1) : targets[j] # target
    ELSE 0

contained(target) == target \in attached

\* (mutant of targetsAfterLeave: every occurrence of the target is removed)
targetsAfterLeaveAll(targets, target) ==
    LET other(t) == t # target
    IN  SelectSeq(SelectSeq(targets, contained), other)

\* dragTargetsRef.current after a dragleave on target
targetsAfterLeave(targets, target) ==
    LET kept == SelectSeq(targets, contained)
        targetIdx == indexOf(kept, target)
    IN  IF targetIdx # 0 THEN RemoveAt(kept, targetIdx) ELSE kept

\* (mutant of stillHovered: the early return is left out)
stillHoveredNever(targets) == FALSE

\* if (targets.length > 0) return
stillHovered(targets) == Len(targets) > 0

onDragLeaveCb(event) ==
    LET targets == targetsAfterLeave(dragTargets, event.target)
    IN  /\ dragTargets' = targets
        /\ last' = StepOf("onDragLeaveCb", event.hasFiles, <<>>, FALSE, event.target)
        /\ phase' = phaseAfter("dragleave", "", event.hasFiles, <<>>)
        /\ IF stillHovered(targets)
           THEN /\ calls' = <<>>
                /\ UNCHANGED state
           ELSE /\ state' = reducer(state, [type |-> "setDraggedFiles",
                                            isDragActive |-> FALSE,
                                            isDragAccept |-> FALSE,
                                            isDragReject |-> FALSE])
                /\ calls' = <<Did("dispatch:setDraggedFiles")>>
                            \o (IF isEvtWithFiles(event) THEN <<Did("onDragLeave")>> ELSE <<>>)
        /\ UNCHANGED <<reads, cfg, fsAccessApiWorks, inputEmpty, pending, timers,
                       attached>>

\* (mutant of stateAfterDrop: the reset is left out)
stateAfterDropKept(s) == s

\* the state onDropCb leaves behind
stateAfterDrop(s) == reducer(s, [type |-> "reset"])

\* onDropCb for a drop on the root (kind "drop") or a change of the hidden
\* input (kind "change")
onDropCb(kind, event) ==
    /\ dragTargets' = <<>>
    /\ pending' = IF isEvtWithFiles(event)
                  THEN Started(InFlight(kind, event.files, cfg.noDragEventsBubbling))
                  ELSE pending
    /\ state' = stateAfterDrop(state)
    /\ last' = Step("onDropCb", event.hasFiles)
    /\ calls' = <<Did("dispatch:reset")>>
    /\ phase' = phaseAfter("drop", kind, event.hasFiles, event.files)
    /\ UNCHANGED <<reads, cfg, fsAccessApiWorks, timers, attached>>

\* a drop on the root element
onRootDrop(event) ==
    /\ onDropCb("drop", event)
    /\ UNCHANGED inputEmpty

\* the user picks files in the dialog of the hidden input: its change event
onInputChange(files) ==
    /\ cfg.hasInput
    /\ inputEmpty' = (Len(files) = 0)
    /\ onDropCb("change", Event(TRUE, files, "input"))

\* the .then() of onDropCb for the promise p in flight
dropResolved(p) ==
    LET files == fromEvent(p.kind, p.files)
    IN  /\ p.kind \in {"drop", "change"}
        /\ pending' = Settled(p)
        /\ last' = StepSetFiles("dropResolved",
                                 IF suppressed(p) THEN <<>> ELSE files, p.stopped)
        /\ phase' = phaseAfter("resolveDrop", p.kind, TRUE, <<>>)
        /\ IF suppressed(p)
           THEN /\ calls' = <<>>
                /\ UNCHANGED <<state>>
           ELSE /\ state' = setFilesState(state, files)
                /\ calls' = setFilesCalls(evaluateFiles(files, cfg))
        /\ UNCHANGED <<reads, cfg, dragTargets, fsAccessApiWorks, inputEmpty, timers,
                       attached>>

\* (mutant of extractionRejected: the batch is finalized all the same)
extractionRejectedReporting(p) ==
    LET files == fromEvent(p.kind, p.files)
    IN  /\ p.kind \in {"dragenter", "drop", "change"}
        /\ pending' = Settled(p)
        /\ last' = Step(IF p.kind = "dragenter" THEN "dragEnterRejected"
                                                ELSE "dropRejected", TRUE)
        /\ calls' = <<Did("onError")>> \o setFilesCalls(evaluateFiles(files, cfg))
        /\ state' = setFilesState(state, files)
        /\ phase' = OtherPhase
        /\ UNCHANGED <<reads, cfg, dragTargets, fsAccessApiWorks, inputEmpty,
                       timers, attached>>

\* the .catch() of onDragEnterCb and onDropCb: the extraction rejected
extractionRejected(p) ==
    /\ p.kind \in {"dragenter", "drop", "change"}
    /\ pending' = Settled(p)
    /\ last' = Step(IF p.kind = "dragenter" THEN "dragEnterRejected"
                                            ELSE "dropRejected", TRUE)
    /\ calls' = <<Did("onError")>>
    /\ phase' = OtherPhase
    /\ UNCHANGED <<reads, cfg, state, dragTargets, fsAccessApiWorks, inputEmpty,
                   timers, attached>>

\* an ancestor's handler stops the propagation of an event whose extraction
\* is still pending
stopPropagation(p) ==
    /\ p.kind \in {"dragenter", "drop", "change"}
    /\ ~p.stopped
    /\ pending' = Replaced(p, [p EXCEPT !.stopped = TRUE])
    /\ last' = Step("stopPropagation", TRUE)
    /\ calls' = <<>>
    /\ phase' = phaseAfter("stop", p.kind, TRUE, <<>>)
    /\ UNCHANGED <<reads, cfg, state, dragTargets, fsAccessApiWorks, inputEmpty,
                   timers, attached>>

----------------------------------------------------------------------------
(* The file dialog                                                         *)

\* (mutant of fsAccessApiWorksRef: the secure context is not looked at)
fsAccessApiWorksRefInsecure(c) ==
    c.useFsAccessApi /\ c.canUseFileSystemAccessAPI

\* the initial value of fsAccessApiWorksRef
fsAccessApiWorksRef(c) ==
    c.isSecureContext /\ c.useFsAccessApi /\ c.canUseFileSystemAccessAPI

\* openFileDialog(): through showOpenFilePicker when the File System Access
\* API works, through a click on the hidden input otherwise
openFileDialog ==
    /\ last' = Step("openFileDialog", FALSE)
    /\ phase' = OtherPhase
    /\ IF fsAccessApiWorks
       THEN /\ state' = reducer(state, [type |-> "openDialog"])
            /\ calls' = <<Did("dispatch:openDialog"), Did("onFileDialogOpen"),
                          Did("showOpenFilePicker")>>
            /\ pending' = Started(InFlight("picker", <<>>, FALSE))
            /\ UNCHANGED inputEmpty
       ELSE IF cfg.hasInput
            THEN /\ state' = reducer(state, [type |-> "openDialog"])
                 /\ calls' = <<Did("dispatch:openDialog"), Did("onFileDialogOpen"),
                               Did("input.click")>>
                 /\ inputEmpty' = TRUE
                 /\ UNCHANGED pending
            ELSE /\ calls' = <<>>
                 /\ UNCHANGED <<state, inputEmpty, pending>>
    /\ UNCHANGED <<reads, cfg, dragTargets, fsAccessApiWorks, timers, attached>>

\* showOpenFilePicker() resolves with handles: getFilesFromEvent(handles) starts
pickerResolved(p, handles) ==
    /\ p.kind = "picker"
    /\ pending' = Replaced(p, InFlight("handles", handles, FALSE))
    /\ last' = Step("pickerResolved", TRUE)
    /\ calls' = <<>>
    /\ phase' = OtherPhase
    /\ UNCHANGED <<reads, cfg, state, dragTargets, fsAccessApiWorks, inputEmpty,
                   timers, attached>>

\* (mutant of handlesResolved: closeDialog is dispatched before setFiles)
handlesResolvedClosingFirst(p) ==
    LET files == fromEvent("handles", p.files)
    IN  /\ p.kind = "handles"
        /\ pending' = Settled(p)
        /\ last' = StepSetFiles("handlesResolved", files, FALSE)
        /\ phase' = OtherPhase
        /\ state' = reducer(setFilesState(state, files), [type |-> "closeDialog"])
        /\ calls' = <<Did("dispatch:closeDialog")>>
                      \o setFilesCalls(evaluateFiles(files, cfg))
        /\ UNCHANGED <<reads, cfg, dragTargets, fsAccessApiWorks, inputEmpty, timers,
                       attached>>

\* getFilesFromEvent(handles) resolves: setFiles(files, null), then closeDialog
handlesResolved(p) ==
    LET files == fromEvent("handles", p.files)
    IN  /\ p.kind = "handles"
        /\ pending' = Settled(p)
        /\ last' = StepSetFiles("handlesResolved", files, FALSE)
        /\ phase' = OtherPhase
        /\ state' = reducer(setFilesState(state, files), [type |-> "closeDialog"])
        /\ calls' = setFilesCalls(evaluateFiles(files, cfg))
                      \o <<Did("dispatch:closeDialog")>>
        /\ UNCHANGED <<reads, cfg, dragTargets, fsAccessApiWorks, inputEmpty, timers,
                       attached>>

\* (mutant of pickerRejected: an AbortError is reported like any other error)
pickerRejectedAbortAsError(p, err) ==
    /\ p.kind \in {"picker", "handles"}
    /\ pending' = Settled(p)
    /\ last' = Step(CASE err = "abort" -> "pickerAborted"
                       [] err = "security" -> "pickerSecurityError"
                       [] OTHER -> "pickerFailed", FALSE)
    /\ phase' = OtherPhase
    /\ CASE err = "security" ->
              /\ fsAccessApiWorks' = FALSE
              /\ IF cfg.hasInput
                 THEN /\ inputEmpty' = TRUE
                      /\ calls' = <<Did("input.click")>>
                 ELSE /\ calls' = <<Did("onError")>>
                      /\ UNCHANGED inputEmpty
              /\ UNCHANGED state
         [] OTHER ->
              /\ calls' = <<Did("onError")>>
              /\ UNCHANGED <<state, fsAccessApiWorks, inputEmpty>>
    /\ UNCHANGED <<reads, cfg, dragTargets, timers, attached>>

\* (mutant of pickerRejected: a SecurityError leaves fsAccessApiWorksRef as it is)
pickerRejectedKeepingFlag(p, err) ==
    /\ p.kind \in {"picker", "handles"}
    /\ pending' = Settled(p)
    /\ last' = Step(CASE err = "abort" -> "pickerAborted"
                       [] err = "security" -> "pickerSecurityError"
                       [] OTHER -> "pickerFailed", FALSE)
    /\ phase' = OtherPhase
    /\ CASE err = "abort" ->
              /\ state' = reducer(state, [type |-> "closeDialog"])
              /\ calls' = <<Did("onFileDialogCancel"), Did("dispatch:closeDialog")>>
              /\ UNCHANGED <<fsAccessApiWorks, inputEmpty>>
         [] err = "security" ->
              /\ UNCHANGED fsAccessApiWorks
              /\ IF cfg.hasInput
                 THEN /\ inputEmpty' = TRUE
                      /\ calls' = <<Did("input.click")>>
                 ELSE /\ calls' = <<Did("onError")>>
                      /\ UNCHANGED inputEmpty
              /\ UNCHANGED state
         [] OTHER ->
              /\ calls' = <<Did("onError")>>
              /\ UNCHANGED <<state, fsAccessApiWorks, inputEmpty>>
    /\ UNCHANGED <<reads, cfg, dragTargets, timers, attached>>

\* the .catch() of openFileDialog: err is "abort" (isAbort), "security"
\* (isSecurityError) or "other"
pickerRejected(p, err) ==
    /\ p.kind \in {"picker", "handles"}
    /\ pending' = Settled(p)
    /\ last' = Step(CASE err = "abort" -> "pickerAborted"
                       [] err = "security" -> "pickerSecurityError"
                       [] OTHER -> "pickerFailed", FALSE)
    /\ phase' = OtherPhase
    /\ CASE err = "abort" ->
              /\ state' = reducer(state, [type |-> "closeDialog"])
              /\ calls' = <<Did("onFileDialogCancel"), Did("dispatch:closeDialog")>>
              /\ UNCHANGED <<fsAccessApiWorks, inputEmpty>>
         [] err = "security" ->
              /\ fsAccessApiWorks' = FALSE
              /\ IF cfg.hasInput
                 THEN /\ inputEmpty' = TRUE
                      /\ calls' = <<Did("input.click")>>
                 ELSE /\ calls' = <<Did("onError")>>
                      /\ UNCHANGED inputEmpty
              /\ UNCHANGED state
         [] OTHER ->
              /\ calls' = <<Did("onError")>>
              /\ UNCHANGED <<state, fsAccessApiWorks, inputEmpty>>
    /\ UNCHANGED <<reads, cfg, dragTargets, timers, attached>>

\* the window's focus event: a timeout is set if the dialog of the hidden
\* input may have been closed
onWindowFocus ==
    /\ timers' = IF ~fsAccessApiWorks /\ state.isFileDialogActive
                 THEN timers + 1 ELSE timers
    /\ last' = Step("onWindowFocus", FALSE)
    /\ calls' = <<>>
    /\ phase' = OtherPhase
    /\ UNCHANGED <<reads, cfg, state, dragTargets, fsAccessApiWorks, inputEmpty,
                   pending, attached>>

\* (mutant of onWindowFocusTimeout: the files of the input are not looked at)
onWindowFocusTimeoutAlways ==
    /\ timers > 0
    /\ timers' = timers - 1
    /\ last' = Step("onWindowFocusTimeout", FALSE)
    /\ phase' = OtherPhase
    /\ IF cfg.hasInput
       THEN /\ state' = reducer(state, [type |-> "closeDialog"])
            /\ calls' = <<Did("dispatch:closeDialog"), Did("onFileDialogCancel")>>
       ELSE /\ calls' = <<>>
            /\ UNCHANGED state
    /\ UNCHANGED <<reads, cfg, dragTargets, fsAccessApiWorks, inputEmpty, pending,
                   attached>>

\* the callback of that timeout, 300 ms later
onWindowFocusTimeout ==
    /\ timers > 0
    /\ timers' = timers - 1
    /\ last' = Step("onWindowFocusTimeout", FALSE)
    /\ phase' = OtherPhase
    /\ IF cfg.hasInput /\ inputEmpty
       THEN /\ state' = reducer(state, [type |-> "closeDialog"])
            /\ calls' = <<Did("dispatch:closeDialog"), Did("onFileDialogCancel")>>
       ELSE /\ calls' = <<>>
            /\ UNCHANGED state
    /\ UNCHANGED <<reads, cfg, dragTargets, fsAccessApiWorks, inputEmpty, pending,
                   attached>>

----------------------------------------------------------------------------
(* The document around the root element                                    *)

\* the consumer removes the child element from the root, or puts it back
childToggled ==
    /\ attached' = IF "child" \in attached
                   THEN attached \ {"child"} ELSE attached \cup {"child"}
    /\ last' = Step("childToggled", FALSE)
    /\ calls' = <<>>
    /\ phase' = OtherPhase
    /\ UNCHANGED <<reads, cfg, state, dragTargets, fsAccessApiWorks, inputEmpty,
                   pending, timers>>

----------------------------------------------------------------------------
(* Bounds, configurations and inputs                                       *)

MaxBatch == 3        \* longest batch of the finalization specification
MaxPending == 2      \* promises in flight at once
MaxTargets == 2      \* longest dragTargetsRef.current
MaxTimers == 2       \* timeouts of onWindowFocus pending at once
MaxDepth == 2        \* deepest nesting of the dropped directories
MaxEntries == 2      \* most entries in one DataTransfer
MaxAccept == 2       \* most entries in an accepted-types list
MaxSize == 3         \* largest size and size bound of the policy specification
MaxDragged == 2      \* longest payload of a dragenter of the probe specification

\* the sequences without repetition of at most n elements of S
Batches(S, n) ==
    UNION { { b \in [1..k -> S] : \A i, j \in 1..k : i # j => b[i] # b[j] } :
            k \in 0..n }

ImageAny == <<"i","m","a","g","e","/","*">>
DotPNG == <<" ",".","P","N","G">>

AcceptAll == [set |-> FALSE, types |-> <<>>]
AcceptImage == [set |-> TRUE, types |-> <<ImageAny>>]
AcceptTextOrPng == [set |-> TRUE, types |-> <<TextPlain, DotPNG>>]

Config(accept, sizes, card, validator, bubbling, hasInput, fsAccess) ==
    [accept |-> accept, minSize |-> sizes[1], maxSize |-> sizes[2],
     multiple |-> card[1], maxFiles |-> card[2], validator |-> validator,
     noDragEventsBubbling |-> bubbling, hasInput |-> hasInput,
     isSecureContext |-> TRUE, useFsAccessApi |-> fsAccess,
     canUseFileSystemAccessAPI |-> TRUE]

\* defaultProps: minSize 0, maxSize Infinity, multiple true, maxFiles 0
DefaultSizes == <<Num(0), Infinity>>

\* the configurations of the interaction specification
Configs ==
    { Config(a, DefaultSizes, c, "null", b, TRUE, FALSE) :
        a \in {AcceptImage}, c \in {<<TRUE, 1>>}, b \in BOOLEAN }

\* the configurations of the finalization specification
Cardinalities == {<<FALSE, 0>>, <<TRUE, 0>>, <<TRUE, 1>>, <<TRUE, 2>>}

FileConfigs ==
    { Config(a, s, c, v, FALSE, TRUE, TRUE) :
        a \in {AcceptAll, AcceptImage, AcceptTextOrPng},
        s \in {DefaultSizes, <<Num(2), Num(3)>>, <<Num(3), Num(1)>>},
        c \in Cardinalities,
        v \in {"null", "one", "many", "empty"} }
      \cup { Config(AcceptImage, DefaultSizes, c, "one", TRUE, TRUE, TRUE) :
                c \in Cardinalities }

\* the configurations of the probe specification
ProbeConfigs ==
    { Config(a, s, c, v, b, TRUE, FALSE) :
        a \in {AcceptAll, AcceptImage},
        s \in {DefaultSizes, <<Num(2), Num(3)>>},
        c \in Cardinalities,
        v \in {"null", "one", "many", "empty"},
        b \in BOOLEAN }

ProbeBatches == Batches({FileA, FileB, FileC}, MaxDragged)

\* the configurations of the dialog specification: with and without the
\* hidden input, the opt-in, the secure context and the picker of the browser
DialogConfigs ==
    { [Config(AcceptImage, DefaultSizes, <<TRUE, 0>>, "null", FALSE, i, u)
          EXCEPT !.isSecureContext = sc, !.canUseFileSystemAccessAPI = cap] :
        i \in BOOLEAN, u \in BOOLEAN, sc \in BOOLEAN, cap \in BOOLEAN }

DialogBatches == {<<>>, <<FileA>>, <<FileB, FileA>>}

PickerErrors == {"abort", "security", "other"}

\* the entries of the extraction specification: three junk or nearly junk
\* files, a file, and directories d levels deep that hold x next to the
\* directory below and Thumbs.db in a second batch
DSStore == RawFile(5, <<".","D","S","_","S","t","o","r","e">>, <<>>, 1, FALSE)
ThumbsDb == RawFile(6, <<"T","h","u","m","b","s",".","d","b">>, <<>>, 1, FALSE)
LowerThumbsDb == RawFile(7, <<"t","h","u","m","b","s",".","d","b">>, <<>>, 1, FALSE)

Leaves == {FileA, DSStore, ThumbsDb, LowerThumbsDb}

RECURSIVE Nested(_, _, _)
Nested(d, x, y) ==
    IF d = 1
    THEN DirEntry(<<"d">>, << <<x>>, <<y>> >>)
    ELSE DirEntry(<<"d">>, << <<x, Nested(d - 1, x, y)>>, <<y>> >>)

TopEntries ==
    Leaves \cup { Nested(d, x, ThumbsDb) : d \in 1..MaxDepth, x \in Leaves }

SeqsUpTo(S, n) == UNION { [1..k -> S] : k \in 0..n }

Item(kind, entry) == [kind |-> kind, entry |-> entry]

\* what is dropped: items (files and directories, and a string item that is
\* not a file) or, without dataTransfer.items, a flat list of files
ItemTransfers ==
    { [hasItems |-> TRUE,
       items |-> <<Item("string", FileA)>>
                   \o [i \in DOMAIN es |-> Item("file", es[i])],
       files |-> <<>>] : es \in SeqsUpTo(TopEntries, MaxEntries) }

FileListTransfers ==
    { [hasItems |-> FALSE, items |-> <<>>, files |-> fs] :
        fs \in SeqsUpTo(Leaves, MaxEntries) }

\* the files and the accepted-types lists of the policy specification
PolicyNames == {<<>>, <<"a",".","p","n","g">>, <<"c",".","P","N","G">>,
                <<"b",".","t","x","t">>}

PolicyTypes == {<<>>, ImagePng, <<"I","M","A","G","E","/","p","n","g">>,
                TextPlain, MozFile}

PolicyFiles ==
    { [RawFile(1, n, t, 1, FALSE) EXCEPT !.path = NoPath] :
        n \in PolicyNames, t \in PolicyTypes }

PolicyEntries ==
    { <<".","p","n","g">>, DotPNG, ImageAny,
      <<"I","m","a","g","e","/","*">>, TextPlain,
      <<"T","E","X","T","/","p","l","a","i","n">>, <<"/","*">> }

PolicyAccepts ==
    { AcceptAll, [set |-> TRUE, types |-> <<>>] }
      \cup { [set |-> TRUE, types |-> ts] :
                 ts \in UNION { [1..k -> PolicyEntries] : k \in 1..MaxAccept } }

\* sizes and size bounds: undefined, a number, and Infinity for maxSize
PolicySizes == {Undef} \cup { Num(n) : n \in 0..MaxSize }

\* the payloads of the interaction specification and of the finalization one
DragBatches == {<<FileA>>, <<FileB, FileA>>}
DropBatches == {<<FileB, FileA>>}
FileBatches == Batches({FileA, FileB, FileC, FileD}, MaxBatch)

Targets == {"root", "child"}

\* the events of a drag that carries files (any of the payloads) or none,
\* on any of the targets
DragEvents(batches, targets) ==
    { Event(TRUE, b, t) : b \in batches, t \in targets }
      \cup { Event(FALSE, <<>>, t) : t \in targets }

----------------------------------------------------------------------------
(* Specifications                                                          *)

InitWith(configs) ==
    /\ reads = NoReads
    /\ cfg \in configs
    /\ state = initialState
    /\ dragTargets = <<>>
    /\ fsAccessApiWorks = fsAccessApiWorksRef(cfg)
    /\ inputEmpty = TRUE
    /\ pending = EmptyBag
    /\ timers = 0
    /\ last = Step("init", FALSE)
    /\ calls = <<>>
    /\ attached = Targets
    /\ phase = Phase("idle", <<>>)

Init == InitWith(Configs)

InitFiles == InitWith(FileConfigs)

DragEnter ==
    \E e \in DragEvents(DragBatches, Targets) :
        /\ Len(dragTargets) < MaxTargets
        /\ e.hasFiles => BagCardinality(pending) < MaxPending
        /\ onDragEnterCb(e)

\* (neither dragover nor drop reads the target, dragleave reads no payload)
DragOver == \E e \in DragEvents({<<FileA>>}, {"root"}) : onDragOverCb(e)

DragLeave == \E e \in DragEvents({<<FileA>>}, Targets) : onDragLeaveCb(e)

Drop ==
    \E e \in DragEvents(DropBatches, {"root"}) :
        /\ e.hasFiles => BagCardinality(pending) < MaxPending
        /\ onRootDrop(e)

DragEnterResolved == \E p \in InFlightNow : dragEnterResolved(p)

DropResolved == \E p \in InFlightNow : dropResolved(p)

ExtractionRejected == \E p \in InFlightNow : extractionRejected(p)

StopPropagation == \E p \in InFlightNow : stopPropagation(p)

\* The drag-and-drop interaction of one surface.
Next ==
    \/ onFocusCb
    \/ onBlurCb
    \/ DragEnter
    \/ DragOver
    \/ DragLeave
    \/ Drop
    \/ DragEnterResolved
    \/ DropResolved
    \/ ExtractionRejected
    \/ StopPropagation

Spec == Init /\ [][Next]_vars

\* The finalization pipeline alone: one batch at a time, every batch of
\* FileBatches, every configuration of FileConfigs.
FilesDrop ==
    \E b \in FileBatches : pending = EmptyBag /\ onRootDrop(Event(TRUE, b, "root"))

FilesInputChange == \E b \in FileBatches : pending = EmptyBag /\ onInputChange(b)

FilesOpenDialog == pending = EmptyBag /\ openFileDialog

FilesPickerResolved ==
    \E p \in InFlightNow : \E b \in FileBatches : pickerResolved(p, b)

HandlesResolved == \E p \in InFlightNow : handlesResolved(p)

NextFiles ==
    \/ FilesDrop
    \/ FilesInputChange
    \/ FilesOpenDialog
    \/ FilesPickerResolved
    \/ DropResolved
    \/ HandlesResolved
    \/ StopPropagation

SpecFiles == InitFiles /\ [][NextFiles]_vars

\* The probe of a dragenter alone: one dragenter at a time, every payload of
\* ProbeBatches, every configuration of ProbeConfigs.
InitProbe == InitWith(ProbeConfigs)

ProbeEnter ==
    \E b \in ProbeBatches, t \in Targets :
        /\ pending = EmptyBag
        /\ Len(dragTargets) < MaxTargets
        /\ onDragEnterCb(Event(TRUE, b, t))

NextProbe ==
    \/ ProbeEnter
    \/ DragEnterResolved
    \/ StopPropagation
    \/ DragLeave

SpecProbe == InitProbe /\ [][NextProbe]_vars

\* The file dialog alone: open() through the picker or the hidden input, the
\* outcomes of the picker, the change event of the input, the focus event of
\* the window and its timeout.
InitDialog == InitWith(DialogConfigs)

DialogOpen == BagCardinality(pending) < MaxPending /\ openFileDialog

DialogPickerResolved ==
    \E p \in InFlightNow : \E b \in DialogBatches : pickerResolved(p, b)

DialogPickerRejected ==
    \E p \in InFlightNow : \E err \in PickerErrors : pickerRejected(p, err)

DialogInputChange ==
    \E b \in DialogBatches :
        /\ BagCardinality(pending) < MaxPending
        /\ onInputChange(b)

WindowFocus == timers < MaxTimers /\ onWindowFocus

NextDialog ==
    \/ DialogOpen
    \/ DialogPickerResolved
    \/ HandlesResolved
    \/ DialogPickerRejected
    \/ DialogInputChange
    \/ DropResolved
    \/ WindowFocus
    \/ onWindowFocusTimeout

SpecDialog == InitDialog /\ [][NextDialog]_vars

\* The extractor alone, on every DataTransfer of ItemTransfers and of
\* FileListTransfers: getDataTransferFiles(dt, 'drop') is applied and what
\* it was given and what it returned are recorded.
InitExtract ==
    InitWith({Config(AcceptAll, DefaultSizes, <<TRUE, 0>>, "null", FALSE, TRUE, FALSE)})

Extracted(dt) ==
    /\ calls' = <<Eff("getDataTransferFiles", dt, getDataTransferFiles(dt, "drop"))>>
    /\ last' = Step("getDataTransferFiles", TRUE)
    /\ UNCHANGED <<reads, cfg, state, dragTargets, fsAccessApiWorks, inputEmpty,
                   pending, timers, attached, phase>>

ExtractItems ==
    \E dt \in ItemTransfers : last.h = "init" /\ Extracted(dt)

ExtractFileList ==
    \E dt \in FileListTransfers : last.h = "init" /\ Extracted(dt)

NextExtract ==
    \/ ExtractItems
    \/ ExtractFileList

SpecExtract == InitExtract /\ [][NextExtract]_vars

\* The races of the continuations: dragenters, dragleaves, drops, changes of
\* the input and openings of the dialog in any order, with up to MaxPending
\* extractions in flight that resolve in any order.
RaceConfigs ==
    { Config(AcceptImage, DefaultSizes, <<TRUE, 0>>, "null", FALSE, TRUE, FALSE) }

RaceBatches == {<<FileA>>, <<FileB>>}

InitRace == InitWith(RaceConfigs)

RaceEnter ==
    \E e \in DragEvents({<<FileA>>}, Targets) :
        /\ Len(dragTargets) < MaxTargets
        /\ e.hasFiles => BagCardinality(pending) < MaxPending
        /\ onDragEnterCb(e)

RaceDrop ==
    \E b \in RaceBatches :
        /\ BagCardinality(pending) < MaxPending
        /\ onRootDrop(Event(TRUE, b, "root"))

RaceInputChange ==
    \E b \in RaceBatches :
        /\ BagCardinality(pending) < MaxPending
        /\ onInputChange(b)

RaceOpenDialog == cfg.hasInput /\ openFileDialog

NextRace ==
    \/ RaceEnter
    \/ DragLeave
    \/ RaceDrop
    \/ RaceInputChange
    \/ RaceOpenDialog
    \/ DragEnterResolved
    \/ DropResolved
    \/ StopPropagation

SpecRace == InitRace /\ [][NextRace]_vars

\* The reading of one dropped directory of DirTrees: the callbacks of its
\* readers and of its file entries come in any order.
MaxReads == 2        \* most batches of a directory that are not empty

SubDir == DirEntry(<<"s">>, << <<FileD>>, <<FileA>> >>)

DirEntries == {FileA, FileB, SubDir}

DirBatchLists ==
    { bs \in UNION { [1..k -> UNION { [1..n -> DirEntries] : n \in 1..MaxEntries }] :
                       k \in 0..MaxReads } :
        \A b1, b2 \in DOMAIN bs : \A i1 \in DOMAIN bs[b1], i2 \in DOMAIN bs[b2] :
            bs[b1][i1] = bs[b2][i2] => (b1 = b2 /\ i1 = i2) }

DirTrees == { DirEntry(<<"d">>, bs) : bs \in DirBatchLists }

InitDir ==
    /\ \E tree \in DirTrees :
          reads = [tree |-> tree,
                   delivered |-> [p \in { q \in pathsOf(tree, <<>>) :
                                            isDirectory(nodeAt(tree, q)) } |-> 0],
                   settled |-> [p \in pathsOf(tree, <<>>) |-> Unsettled],
                   order |-> <<>>]
    /\ cfg = Config(AcceptAll, DefaultSizes, <<TRUE, 0>>, "null", FALSE, TRUE, FALSE)
    /\ state = initialState
    /\ dragTargets = <<>>
    /\ fsAccessApiWorks = fsAccessApiWorksRef(cfg)
    /\ inputEmpty = TRUE
    /\ pending = EmptyBag
    /\ timers = 0
    /\ last = Step("init", FALSE)
    /\ calls = <<>>
    /\ attached = Targets
    /\ phase = Phase("idle", <<>>)

DirUnchanged ==
    UNCHANGED <<cfg, state, dragTargets, fsAccessApiWorks, inputEmpty, pending,
                timers, attached, phase>>

ReadEntries ==
    \E d \in DOMAIN reads.delivered : readEntries(d) /\ DirUnchanged

EntryFile ==
    \E f \in DOMAIN reads.settled : entryFile(f) /\ DirUnchanged

DirResolved ==
    \E d \in DOMAIN reads.delivered : dirResolved(d) /\ DirUnchanged

NextDir ==
    \/ ReadEntries
    \/ EntryFile
    \/ DirResolved

SpecDir == InitDir /\ [][NextDir]_vars

\* The handlers as getRootProps composes them with the handlers its caller
\* passes: cfg.rootHandler is what the caller's handlers do, and
\* cfg.arrivesStopped says that propagation is stopped before the composed
\* handler is called.
RootConfigs ==
    { Config(AcceptImage, DefaultSizes, <<TRUE, 0>>, "null", b, TRUE, FALSE)
        @@ [rootHandler |-> h, arrivesStopped |-> st] :
        b \in BOOLEAN, h \in {"null", "plain", "stops"}, st \in BOOLEAN }

InitRoot == InitWith(RootConfigs)

\* the handler of the module, second of the two composed, runs
moduleHandlerRuns(stops) ==
    composeEventHandlers(<<cfg.rootHandler, IF stops THEN "stops" ELSE "plain">>,
                         cfg.arrivesStopped)[2]

\* the composed handler returns without having run the handler of the module
notRun(event) ==
    /\ last' = StepOf("composeEventHandlers", event.hasFiles, <<>>, TRUE,
                      event.target)
    /\ calls' = <<>>
    /\ UNCHANGED <<reads, cfg, state, dragTargets, fsAccessApiWorks, inputEmpty,
                   pending, timers, attached, phase>>

RootFocus ==
    IF moduleHandlerRuns(FALSE)
    THEN onFocusCb
    ELSE notRun(Event(FALSE, <<>>, "root"))

RootBlur ==
    IF moduleHandlerRuns(FALSE)
    THEN onBlurCb
    ELSE notRun(Event(FALSE, <<>>, "root"))

RootDragEnter ==
    \E e \in DragEvents({<<FileA>>}, Targets) :
        /\ Len(dragTargets) < MaxTargets
        /\ e.hasFiles => BagCardinality(pending) < MaxPending
        /\ IF moduleHandlerRuns(cfg.noDragEventsBubbling)
           THEN onDragEnterCb(e)
           ELSE notRun(e)

RootDragOver ==
    \E e \in DragEvents({<<FileA>>}, {"root"}) :
        IF moduleHandlerRuns(cfg.noDragEventsBubbling)
        THEN onDragOverCb(e)
        ELSE notRun(e)

RootDragLeave ==
    \E e \in DragEvents({<<FileA>>}, Targets) :
        IF moduleHandlerRuns(cfg.noDragEventsBubbling)
        THEN onDragLeaveCb(e)
        ELSE notRun(e)

RootDrop ==
    \E e \in DragEvents({<<FileB, FileA>>}, {"root"}) :
        /\ e.hasFiles => BagCardinality(pending) < MaxPending
        /\ IF moduleHandlerRuns(cfg.noDragEventsBubbling)
           THEN onRootDrop(e)
           ELSE notRun(e)

NextRoot ==
    \/ RootFocus
    \/ RootBlur
    \/ RootDragEnter
    \/ RootDragOver
    \/ RootDragLeave
    \/ RootDrop
    \/ DragEnterResolved
    \/ DropResolved

SpecRoot == InitRoot /\ [][NextRoot]_vars

\* The hovered-target list alone: dragenters and dragleaves on the root and
\* on a child of it that is taken out of the root and put back at any time.
InitHover ==
    InitWith({Config(AcceptImage, DefaultSizes, <<TRUE, 0>>, "null", FALSE, TRUE, FALSE)})

HoverEnter ==
    \E e \in DragEvents({<<FileA>>}, Targets) :
        /\ e.target \in attached
        /\ Len(dragTargets) < MaxTargets
        /\ e.hasFiles => BagCardinality(pending) < MaxPending
        /\ onDragEnterCb(e)

NextHover ==
    \/ HoverEnter
    \/ DragLeave
    \/ DragEnterResolved
    \/ childToggled

SpecHover == InitHover /\ [][NextHover]_vars

\* The drag flags: dragenters that carry no file, a file that is accepted or
\* one that is not, with dragleaves, drops and openings of the dialog in
\* between and up to MaxPending extractions in flight.
FlagsEnter ==
    \E e \in DragEvents({<<>>, <<FileA>>, <<FileB>>}, {"root"}) :
        /\ Len(dragTargets) < MaxTargets
        /\ e.hasFiles => BagCardinality(pending) < MaxPending
        /\ onDragEnterCb(e)

FlagsLeave == \E e \in DragEvents({<<FileA>>}, {"root"}) : onDragLeaveCb(e)

FlagsDrop ==
    /\ BagCardinality(pending) < MaxPending
    /\ onRootDrop(Event(TRUE, <<FileA>>, "root"))

NextFlags ==
    \/ FlagsEnter
    \/ FlagsLeave
    \/ FlagsDrop
    \/ RaceOpenDialog
    \/ DragEnterResolved
    \/ DropResolved
    \/ StopPropagation

SpecFlags == InitRace /\ [][NextFlags]_vars

\* The hidden input alone: the dialog is opened through the input, the
\* window is focused again any number of times, the timeouts fire, and files
\* are chosen.  Here isFileDialogActive is set by an opening only, and
\* cleared only by the cancellation a timeout detects and by the change event
\* of chosen files, after which the input is not empty until the next opening.
InitCancel ==
    InitWith({ [Config(AcceptImage, DefaultSizes, <<TRUE, 0>>, "null", FALSE, TRUE, u)
                  EXCEPT !.isSecureContext = FALSE] : u \in BOOLEAN })

CancelOpen == openFileDialog

CancelInputChange ==
    \E b \in {<<FileA>>, <<FileB, FileA>>} :
        /\ BagCardinality(pending) < MaxPending
        /\ onInputChange(b)

NextCancel ==
    \/ CancelOpen
    \/ WindowFocus
    \/ onWindowFocusTimeout
    \/ CancelInputChange
    \/ DropResolved
    \/ onFocusCb
    \/ onBlurCb

SpecCancel == InitCancel /\ [][NextCancel]_vars

\* The surface as it is handed out: the props of getRootProps and
\* getInputProps and the open function, for a configuration c that also says
\* disabled, noDrag, noKeyboard and noClick.  A handler is named by its
\* callback, "null" when there is none.

\* (mutant of composeHandler: disabled is not looked at)
composeHandlerAlways(c, fn) == fn

composeHandler(c, fn) == IF c.disabled THEN "null" ELSE fn

composeKeyboardHandler(c, fn) ==
    IF c.noKeyboard THEN "null" ELSE composeHandler(c, fn)

composeDragHandler(c, fn) ==
    IF c.noDrag THEN "null" ELSE composeHandler(c, fn)

getRootProps(c) ==
    [onKeyDown |-> composeKeyboardHandler(c, "onKeyDownCb"),
     onFocus |-> composeKeyboardHandler(c, "onFocusCb"),
     onBlur |-> composeKeyboardHandler(c, "onBlurCb"),
     onClick |-> composeHandler(c, "onClickCb"),
     onDragEnter |-> composeDragHandler(c, "onDragEnterCb"),
     onDragOver |-> composeDragHandler(c, "onDragOverCb"),
     onDragLeave |-> composeDragHandler(c, "onDragLeaveCb"),
     onDrop |-> composeDragHandler(c, "onDropCb")]

getInputProps(c) ==
    [onChange |-> composeHandler(c, "onDropCb"),
     onClick |-> composeHandler(c, "onInputElementClick")]

open(c) == composeHandler(c, "openFileDialog")

\* the state useDropzone returns: isFocused: isFocused && !disabled
returnedState(s, c) == [s EXCEPT !.isFocused = s.isFocused /\ ~c.disabled]

\* an event for which the surface has no handler: nothing runs
noHandler(prop) ==
    /\ last' = StepOf("noHandler", FALSE, <<>>, FALSE, prop)
    /\ calls' = <<>>
    /\ UNCHANGED <<reads, cfg, state, dragTargets, fsAccessApiWorks, inputEmpty,
                   pending, timers, attached, phase>>

\* a handler that returns at once
returnsAtOnce(h) ==
    /\ last' = Step(h, FALSE)
    /\ calls' = <<>>
    /\ UNCHANGED <<reads, cfg, state, dragTargets, fsAccessApiWorks, inputEmpty,
                   pending, timers, attached, phase>>

\* onKeyDownCb(event): SPACE or ENTER on the root itself opens the dialog
onKeyDownCb(onRoot, key) ==
    IF onRoot /\ key \in {" ", "Enter"}
    THEN openFileDialog
    ELSE returnsAtOnce("onKeyDownCb")

\* onClickCb(), in a browser that is not IE or Edge
onClickCb ==
    IF cfg.noClick THEN returnsAtOnce("onClickCb") ELSE openFileDialog

\* a render with disabled changed
propsChanged ==
    /\ cfg' = [cfg EXCEPT !.disabled = ~@]
    /\ last' = Step("propsChanged", FALSE)
    /\ calls' = <<>>
    /\ UNCHANGED <<reads, state, dragTargets, fsAccessApiWorks, inputEmpty,
                   pending, timers, attached, phase>>

SurfaceConfigs ==
    { Config(AcceptImage, DefaultSizes, <<TRUE, 0>>, "null", FALSE, TRUE, FALSE)
        @@ [disabled |-> d, noDrag |-> nd, noKeyboard |-> nk, noClick |-> nc] :
        d \in BOOLEAN, nd \in BOOLEAN, nk \in BOOLEAN, nc \in BOOLEAN }

InitSurface == InitWith(SurfaceConfigs)

SurfaceKeyDown ==
    \E onRoot \in BOOLEAN, key \in {"Enter", "a"} :
        IF getRootProps(cfg).onKeyDown # "null"
        THEN onKeyDownCb(onRoot, key)
        ELSE noHandler("onKeyDown")

SurfaceFocus ==
    IF getRootProps(cfg).onFocus # "null" THEN onFocusCb ELSE noHandler("onFocus")

SurfaceBlur ==
    IF getRootProps(cfg).onBlur # "null" THEN onBlurCb ELSE noHandler("onBlur")

SurfaceClick ==
    IF getRootProps(cfg).onClick # "null" THEN onClickCb ELSE noHandler("onClick")

SurfaceDragEnter ==
    \E e \in DragEvents({<<FileA>>}, {"root"}) :
        /\ Len(dragTargets) < MaxTargets
        /\ e.hasFiles => BagCardinality(pending) < MaxPending
        /\ IF getRootProps(cfg).onDragEnter # "null"
           THEN onDragEnterCb(e)
           ELSE noHandler("onDragEnter")

SurfaceDragOver ==
    \E e \in DragEvents({<<FileA>>}, {"root"}) :
        IF getRootProps(cfg).onDragOver # "null"
        THEN onDragOverCb(e)
        ELSE noHandler("onDragOver")

SurfaceDragLeave ==
    \E e \in DragEvents({<<FileA>>}, {"root"}) :
        IF getRootProps(cfg).onDragLeave # "null"
        THEN onDragLeaveCb(e)
        ELSE noHandler("onDragLeave")

SurfaceDrop ==
    /\ BagCardinality(pending) < MaxPending
    /\ IF getRootProps(cfg).onDrop # "null"
       THEN onRootDrop(Event(TRUE, <<FileA>>, "root"))
       ELSE noHandler("onDrop")

SurfaceInputChange ==
    /\ BagCardinality(pending) < MaxPending
    /\ IF getInputProps(cfg).onChange # "null"
       THEN onInputChange(<<FileA>>)
       ELSE noHandler("onChange")

SurfaceOpen ==
    IF open(cfg) # "null" THEN openFileDialog ELSE noHandler("open")

NextSurface ==
    \/ SurfaceKeyDown
    \/ SurfaceFocus
    \/ SurfaceBlur
    \/ SurfaceClick
    \/ SurfaceDragEnter
    \/ SurfaceDragOver
    \/ SurfaceDragLeave
    \/ SurfaceDrop
    \/ SurfaceInputChange
    \/ SurfaceOpen
    \/ propsChanged
    \/ DragEnterResolved
    \/ DropResolved

SpecSurface == InitSurface /\ [][NextSurface]_vars

\* The acceptance policy alone: fileAccepted on every file of PolicyFiles and
\* list of PolicyAccepts, fileMatchSize on every size and pair of bounds of
\* PolicySizes; what was given and what was returned are recorded.
InitPolicy ==
    InitWith({Config(AcceptAll, DefaultSizes, <<TRUE, 0>>, "null", FALSE, TRUE, FALSE)})

Applied(op, args, result) ==
    /\ calls' = <<Eff(op, args, result)>>
    /\ last' = Step(op, TRUE)
    /\ UNCHANGED <<reads, cfg, state, dragTargets, fsAccessApiWorks, inputEmpty,
                   pending, timers, attached, phase>>

ApplyFileAccepted ==
    /\ last.h = "init"
    /\ \E file \in PolicyFiles, accept \in PolicyAccepts :
        Applied("fileAccepted", [file |-> file, accept |-> accept],
                fileAccepted(file, accept))

ApplyFileMatchSize ==
    /\ last.h = "init"
    /\ \E size \in PolicySizes, minSize \in PolicySizes,
          maxSize \in PolicySizes \cup {Infinity} :
        Applied("fileMatchSize",
                [size |-> size, minSize |-> minSize, maxSize |-> maxSize],
                fileMatchSize([size |-> size], minSize, maxSize))

NextPolicy ==
    \/ ApplyFileAccepted
    \/ ApplyFileMatchSize

SpecPolicy == InitPolicy /\ [][NextPolicy]_vars

\* The reducer alone: it starts in any InteractionState of ReducerStates and
\* every action of the module, and one the reducer does not know, is
\* dispatched in any order.
ReducerFiles == {<<>>, <<FileA>>}

ReducerRejections == {<<>>, <<[file |-> FileB, errors |-> <<ErrInvalidType>>]>>}

ReducerStates ==
    [isFocused : BOOLEAN, isFileDialogActive : BOOLEAN, isDragActive : BOOLEAN,
     isDragAccept : BOOLEAN, isDragReject : BOOLEAN,
     acceptedFiles : ReducerFiles, fileRejections : ReducerRejections]

InitReducer ==
    /\ reads = NoReads
    /\ cfg = Config(AcceptAll, DefaultSizes, <<TRUE, 0>>, "null", FALSE, TRUE, FALSE)
    /\ state \in ReducerStates
    /\ dragTargets = <<>>
    /\ fsAccessApiWorks = fsAccessApiWorksRef(cfg)
    /\ inputEmpty = TRUE
    /\ pending = EmptyBag
    /\ timers = 0
    /\ last = Step("init", FALSE)
    /\ calls = <<>>
    /\ attached = Targets
    /\ phase = Phase("idle", <<>>)

\* what a dispatch leaves behind beside the new state
dispatched(action) ==
    /\ calls' = <<Eff("reducer", [s |-> state, action |-> action],
                       reducer(state, action))>>
    /\ last' = Step(action.type, FALSE)
    /\ UNCHANGED <<reads, cfg, dragTargets, fsAccessApiWorks, inputEmpty, pending,
                   timers, attached, phase>>

DispatchFocus ==
    /\ state' = reducer(state, [type |-> "focus"])
    /\ dispatched([type |-> "focus"])

DispatchBlur ==
    /\ state' = reducer(state, [type |-> "blur"])
    /\ dispatched([type |-> "blur"])

DispatchOpenDialog ==
    /\ state' = reducer(state, [type |-> "openDialog"])
    /\ dispatched([type |-> "openDialog"])

DispatchCloseDialog ==
    /\ state' = reducer(state, [type |-> "closeDialog"])
    /\ dispatched([type |-> "closeDialog"])

DispatchSetDraggedFiles ==
    \E active \in BOOLEAN, accept \in BOOLEAN, reject \in BOOLEAN :
        LET action == [type |-> "setDraggedFiles", isDragActive |-> active,
                       isDragAccept |-> accept, isDragReject |-> reject]
        IN  /\ state' = reducer(state, action)
            /\ dispatched(action)

DispatchSetFiles ==
    \E accepted \in ReducerFiles, rejections \in ReducerRejections :
        LET action == [type |-> "setFiles", acceptedFiles |-> accepted,
                       fileRejections |-> rejections]
        IN  /\ state' = reducer(state, action)
            /\ dispatched(action)

DispatchReset ==
    /\ state' = reducer(state, [type |-> "reset"])
    /\ dispatched([type |-> "reset"])

DispatchUnknown ==
    /\ state' = reducer(state, [type |-> "unknown"])
    /\ dispatched([type |-> "unknown"])

NextReducer ==
    \/ DispatchFocus
    \/ DispatchBlur
    \/ DispatchOpenDialog
    \/ DispatchCloseDialog
    \/ DispatchSetDraggedFiles
    \/ DispatchSetFiles
    \/ DispatchReset
    \/ DispatchUnknown

SpecReducer == InitReducer /\ [][NextReducer]_vars

----------------------------------------------------------------------------
(* Properties                                                              *)

Range(s) == { s[i] : i \in DOMAIN s }
Count(s, x) == Cardinality({ i \in DOMAIN s : s[i] = x })
RejectedFiles(rejections) == [i \in DOMAIN rejections |-> rejections[i].file]
Ops(cs) == [i \in DOMAIN cs |-> cs[i].op]

\* sub lists elements of s without repetition, in the order they have in s
InOrderOf(sub, s) ==
    /\ \A i \in DOMAIN sub : Count(s, sub[i]) = 1 /\ Count(sub, sub[i]) = 1
    /\ \A i, j \in DOMAIN sub :
           i < j => (CHOOSE k \in DOMAIN s : s[k] = sub[i])
                      < (CHOOSE k \in DOMAIN s : s[k] = sub[j])

\* the last step ran setFiles (on the files last.files)
SetFilesRan == last.h \in {"dropResolved", "handlesResolved"} /\ calls # <<>>

\* the file passes the type check, the size check and the validator's
Passes(f) ==
    /\ fileAccepted(f, cfg.accept).ok
    /\ fileMatchSize(f, cfg.minSize, cfg.maxSize).ok
    /\ ~customErrorsOf(f, cfg.validator).truthy

PassingOf(files) == SelectSeq(files, Passes)

Failing(f) == ~Passes(f)

FailingOf(files) == SelectSeq(files, Failing)

\* more files than the configuration allows
OverLimit(n) ==
    \/ (~cfg.multiple /\ n > 1)
    \/ (cfg.multiple /\ cfg.maxFiles >= 1 /\ n > cfg.maxFiles)

\* C1: after setFiles has finalized a batch, acceptedFiles and the files of
\* fileRejections are disjoint and together are exactly the files of the
\* batch, each of them once.
C1_Partition ==
    SetFilesRan =>
        LET acc == state.acceptedFiles
            rej == RejectedFiles(state.fileRejections)
            all == acc \o rej
        IN  /\ Range(acc) \cap Range(rej) = {}
            /\ Range(all) = Range(last.files)
            /\ Len(all) = Len(last.files)
            /\ \A f \in Range(last.files) : Count(all, f) = 1

C1_Witness ==
    /\ SetFilesRan
    /\ Len(last.files) = 3
    /\ Len(state.acceptedFiles) = 1
    /\ Len(state.fileRejections) = 2

\* C2: in every state, acceptedFiles has at most one element when multiple
\* is false, and at most maxFiles elements when multiple is true and
\* maxFiles > 0.
C2_Cardinality ==
    /\ ~cfg.multiple => Len(state.acceptedFiles) <= 1
    /\ (cfg.multiple /\ cfg.maxFiles > 0) =>
           Len(state.acceptedFiles) <= cfg.maxFiles

C2_Witness ==
    /\ cfg.multiple
    /\ cfg.maxFiles = 2
    /\ Len(state.acceptedFiles) = 2
    /\ Len(last.files) = 3

C4_OrderAsClaimed ==
    SetFilesRan =>
        /\ InOrderOf(state.acceptedFiles, last.files)
        /\ InOrderOf(RejectedFiles(state.fileRejections), last.files)

\* C4 amended: the accepted files are in the order of the batch; the
\* rejections are the files that fail a per-file check, in the order of the
\* batch, followed, after a cardinality violation, by the files that passed,
\* in the order of the batch.
C4_Order ==
    SetFilesRan =>
        LET passing == PassingOf(last.files)
            over == OverLimit(Len(passing))
        IN  /\ state.acceptedFiles = (IF over THEN <<>> ELSE passing)
            /\ RejectedFiles(state.fileRejections)
                 = FailingOf(last.files) \o (IF over THEN passing ELSE <<>>)

C4_Witness ==
    /\ SetFilesRan
    /\ Len(last.files) = 3
    /\ Passes(last.files[1]) /\ ~Passes(last.files[2]) /\ Passes(last.files[3])
    /\ OverLimit(2)
    /\ RejectedFiles(state.fileRejections)
         = <<last.files[2], last.files[1], last.files[3]>>

\* C5 as claimed: with multiple false and more than one file in the batch,
\* the first file, if it passes the per-file checks, is accepted and all
\* the others are rejected.
C5_FirstFileKept ==
    (SetFilesRan /\ ~cfg.multiple /\ Len(last.files) > 1 /\ Passes(last.files[1])) =>
        /\ state.acceptedFiles = <<last.files[1]>>
        /\ RejectedFiles(state.fileRejections) = Tail(last.files)

\* C6 as claimed: for a batch of one file f, acceptedFiles is non-empty iff f
\* passes the type check and the size check and the validator returns no
\* error for it; otherwise f is rejected with a non-empty list of errors.
C6_SingleFile ==
    (SetFilesRan /\ Len(last.files) = 1) =>
        LET f == last.files[1]
            ok == /\ fileAccepted(f, cfg.accept).ok
                  /\ fileMatchSize(f, cfg.minSize, cfg.maxSize).ok
                  /\ customErrorsOf(f, cfg.validator).errs = <<>>
        IN  /\ (state.acceptedFiles # <<>>) <=> ok
            /\ ~ok => /\ Len(state.fileRejections) = 1
                      /\ state.fileRejections[1].file = f
                      /\ state.fileRejections[1].errors # <<>>

\* the five flags are false and acceptedFiles/fileRejections are what setFiles
\* makes of the batch of the drop (see C3 and C4)
Reconciled ==
    LET files == fromEvent("drop", phase.files)
        passing == PassingOf(files)
        over == OverLimit(Len(passing))
    IN  /\ ~state.isFocused /\ ~state.isFileDialogActive
        /\ ~state.isDragActive /\ ~state.isDragAccept /\ ~state.isDragReject
        /\ state.acceptedFiles = (IF over THEN <<>> ELSE passing)
        /\ RejectedFiles(state.fileRejections)
             = FailingOf(files) \o (IF over THEN passing ELSE <<>>)

\* C7 as claimed: after a dragenter and then a drop on the surface, once no
\* extraction is pending, isFocused, isFileDialogActive, isDragActive,
\* isDragAccept and isDragReject are false and acceptedFiles/fileRejections
\* are the partition of the drop's batch, in whatever order the extractions
\* of the dragenter and of the drop resolve.
C7_Reconciled ==
    (phase.s \in DroppedPhases /\ pending = EmptyBag) => Reconciled

\* C8: right after onDropCb has returned, with the extraction of the drop
\* still pending if the event carries files, the state is the initial state
\* and the hovered-target list is empty.
C8_DropResets ==
    last.h = "onDropCb" =>
        /\ state = initialState
        /\ dragTargets = <<>>
        /\ last.hasFiles => \E p \in InFlightNow : p.kind \in {"drop", "change"}

C8_Witness ==
    /\ last.h = "onDropCb"
    /\ last.hasFiles
    /\ \E p \in InFlightNow : p.kind = "dragenter"
    /\ \E p \in InFlightNow : p.kind = "drop"

\* the effects of a setFiles as C9 describes them: the dispatch first, onDrop
\* once with both lists, onDropRejected once iff there are rejections,
\* onDropAccepted once iff there are accepted files
DropObservers ==
    LET ops == Ops(calls)
    IN  /\ calls # <<>>
        /\ calls[1] = Eff("dispatch:setFiles", state.acceptedFiles, state.fileRejections)
        /\ Count(ops, "dispatch:setFiles") = 1
        /\ Count(calls, Eff("onDrop", state.acceptedFiles, state.fileRejections)) = 1
        /\ Count(ops, "onDrop") = 1
        /\ Count(ops, "onDropRejected") = (IF state.fileRejections # <<>> THEN 1 ELSE 0)
        /\ Count(ops, "onDropAccepted") = (IF state.acceptedFiles # <<>> THEN 1 ELSE 0)

\* C9 as claimed: every drop or change event with files whose extraction
\* resolves has these effects.
C9_DropObserversAsClaimed ==
    last.h = "dropResolved" => DropObservers

\* C9 amended: it has them unless the propagation of the event was stopped
\* before the extraction resolved and noDragEventsBubbling is off; then the
\* continuation has no effect at all.
C9_DropObservers ==
    last.h = "dropResolved" =>
        IF last.stopped /\ ~cfg.noDragEventsBubbling
        THEN calls = <<>>
        ELSE DropObservers

C9_Witness ==
    /\ last.h = "dropResolved"
    /\ Ops(calls) = <<"dispatch:setFiles", "onDrop", "onDropRejected">>
    /\ Len(last.files) = 2

\* what C10 says of a dragleave step, the leave observer being invoked
\* whenever no hovered target remains (always) or only if the event carries
\* files (~always)
LeaveStep(always) ==
    LET kept == SelectSeq(dragTargets, LAMBDA t : t \in attached)
        hit == { i \in DOMAIN kept : kept[i] = last'.target }
        first == CHOOSE i \in hit : \A j \in hit : i <= j
        remaining == IF hit = {} THEN kept
                     ELSE [i \in 1..(Len(kept) - 1) |->
                              IF i < first THEN kept[i] ELSE kept[i + 1]]
    IN  /\ dragTargets' = remaining
        /\ IF remaining # <<>>
           THEN state' = state /\ calls' = <<>>
           ELSE /\ state' = [state EXCEPT !.isDragActive = FALSE,
                                          !.isDragAccept = FALSE,
                                          !.isDragReject = FALSE]
                /\ Count(Ops(calls'), "onDragLeave")
                     = (IF always \/ last'.hasFiles THEN 1 ELSE 0)

\* C10 as claimed: on dragleave, if a hovered target remains nothing happens;
\* otherwise the three drag flags are cleared and the leave observer is invoked.
C10_LeaveAsClaimed ==
    [][last'.h = "onDragLeaveCb" => LeaveStep(TRUE)]_vars

\* C10 amended: the leave observer is invoked if the event carries files, and
\* is not invoked if it does not.
C10_Leave ==
    [][last'.h = "onDragLeaveCb" => LeaveStep(FALSE)]_vars

C10_Witness ==
    /\ last.h = "onDragLeaveCb"
    /\ dragTargets # <<>>
    /\ state.isDragActive
    /\ calls = <<>>

\* the last step was the continuation of a dragenter and it was not skipped
ProbeRan ==
    /\ last.h = "dragEnterResolved"
    /\ ~(last.stopped /\ ~cfg.noDragEventsBubbling)

\* the file passes the type check and the size check
PassesTypeAndSize(f) ==
    /\ fileAccepted(f, cfg.accept).ok
    /\ fileMatchSize(f, cfg.minSize, cfg.maxSize).ok

\* C11 as claimed: after the continuation of a dragenter, isDragAccept and
\* isDragReject are a function of the dragged files, accept, minSize,
\* maxSize, multiple and maxFiles alone: isDragAccept iff there is a file,
\* the files are within the limit and each passes the type and size checks.
C11_ProbeAsClaimed ==
    ProbeRan =>
        LET n == Len(last.files)
            accept == /\ n > 0
                      /\ ~OverLimit(n)
                      /\ \A i \in 1..n : PassesTypeAndSize(last.files[i])
        IN  /\ state.isDragAccept = accept
            /\ state.isDragReject = (n > 0 /\ ~accept)

\* C11 amended: the decision uses type, size, cardinality and the custom
\* validator: isDragAccept iff there is a file, the files are within the
\* limit and each passes the type and size checks and gets a falsy value from
\* the validator; isDragReject iff there is a file and isDragAccept is false.
C11_Probe ==
    ProbeRan =>
        LET n == Len(last.files)
            accept == /\ n > 0
                      /\ ~OverLimit(n)
                      /\ \A i \in 1..n : Passes(last.files[i])
        IN  /\ state.isDragAccept = accept
            /\ state.isDragReject = (n > 0 /\ ~accept)

C11_Witness ==
    /\ ProbeRan
    /\ cfg.validator = "one"
    /\ Len(last.files) = 2
    /\ ~OverLimit(2)
    /\ \A i \in 1..2 : PassesTypeAndSize(last.files[i])
    /\ state.isDragReject
    /\ ~state.isDragAccept

\* C12: the handler of a dragenter invokes no observer and applies no
\* transition itself; the enter observer is invoked only by the continuation
\* of the extraction, after the setDraggedFiles transition with isDragActive
\* true; if the propagation of the event was stopped before the extraction
\* resolved and noDragEventsBubbling is off, the continuation of a dragenter
\* and the continuation of a drop change nothing and invoke nothing.
C12_Suppression ==
    [][/\ last'.h = "onDragEnterCb" => (calls' = <<>> /\ state' = state)
       /\ (\E i \in DOMAIN calls' : calls'[i].op = "onDragEnter") =>
              /\ last'.h = "dragEnterResolved"
              /\ calls' = <<Did("dispatch:setDraggedFiles"), Did("onDragEnter")>>
              /\ state'.isDragActive
       /\ (/\ last'.h \in {"dragEnterResolved", "dropResolved"}
           /\ last'.stopped
           /\ ~cfg.noDragEventsBubbling) => (calls' = <<>> /\ state' = state)
      ]_vars

C12_Witness ==
    /\ last.h = "dragEnterResolved"
    /\ last.stopped
    /\ ~cfg.noDragEventsBubbling
    /\ ~state.isDragActive
    /\ calls = <<>>

\* what C13 says of a dragover step, the over observer being invoked for
\* every event (always) or only for an event that carries files (~always)
OverStep(always) ==
    /\ state' = state
    /\ dragTargets' = dragTargets
    /\ pending' = pending
    /\ Count(Ops(calls'), "onDragOver")
         = (IF always \/ last'.hasFiles THEN 1 ELSE 0)

\* C13 as claimed: a dragover changes none of the seven fields of the state
\* nor the hovered targets, and the over observer is invoked inside the handler.
C13_OverAsClaimed ==
    [][last'.h = "onDragOverCb" => OverStep(TRUE)]_vars

\* C13 amended: the over observer is invoked inside the handler if the event
\* carries files, and is not invoked if it does not.
C13_Over ==
    [][last'.h = "onDragOverCb" => OverStep(FALSE)]_vars

C13_Witness ==
    /\ last.h = "onDragOverCb"
    /\ last.hasFiles
    /\ state.isDragActive
    /\ dragTargets # <<>>
    /\ Count(Ops(calls), "onDragOver") = 1

\* C19: when the extraction started by a drop rejects, the error observer is
\* invoked once and no other observer, the state (acceptedFiles and
\* fileRejections included) and the hovered targets are unchanged and the
\* other extractions stay pending; a drop whose extraction resolves later is
\* finalized as usual.
C19_DropRejected ==
    [][/\ last'.h = "dropRejected" =>
              /\ calls' = <<Did("onError")>>
              /\ state' = state
              /\ dragTargets' = dragTargets
              /\ \E p \in InFlightNow :
                     p.kind \in {"drop", "change"} /\ pending' = Settled(p)
       /\ (last'.h = "dropResolved" /\ ~(last'.stopped /\ ~cfg.noDragEventsBubbling))
              => DropObservers'
      ]_vars

C19_Witness ==
    /\ last.h = "dropRejected"
    /\ calls = <<Did("onError")>>
    /\ state.fileRejections # <<>>
    /\ pending # EmptyBag

\* C14: when the promise of the picker rejects with an AbortError, the step
\* leaves isFileDialogActive false, invokes the cancel observer exactly once
\* and the error observer not at all, dispatches no setFiles and leaves
\* acceptedFiles and fileRejections as they were.
C14_Cancel ==
    [][last'.h = "pickerAborted" =>
          /\ ~state'.isFileDialogActive
          /\ Count(Ops(calls'), "onFileDialogCancel") = 1
          /\ Count(Ops(calls'), "onError") = 0
          /\ Count(Ops(calls'), "dispatch:setFiles") = 0
          /\ Count(Ops(calls'), "onDrop") = 0
          /\ state'.acceptedFiles = state.acceptedFiles
          /\ state'.fileRejections = state.fileRejections
      ]_vars

C14_Witness ==
    /\ last.h = "pickerAborted"
    /\ fsAccessApiWorks
    /\ ~state.isFileDialogActive
    /\ calls = <<Did("onFileDialogCancel"), Did("dispatch:closeDialog")>>

\* C15: open() through the picker dispatches openDialog, invokes the open
\* observer and calls the picker, in this order; the resolution of the picker
\* starts the extraction and nothing else; the resolution of the extraction
\* runs setFiles as a drop does (dispatch, onDrop, onDropRejected and
\* onDropAccepted) and then dispatches closeDialog, leaving isFileDialogActive
\* false and acceptedFiles/fileRejections the partition of the picked files.
C15_PickerSuccess ==
    [][/\ (last'.h = "openFileDialog" /\ fsAccessApiWorks) =>
              /\ calls' = <<Did("dispatch:openDialog"), Did("onFileDialogOpen"),
                            Did("showOpenFilePicker")>>
              /\ state'.isFileDialogActive
              /\ pending' = pending (+) SetToBag({InFlight("picker", <<>>, FALSE)})
       /\ last'.h = "pickerResolved" =>
              /\ calls' = <<>>
              /\ state' = state
              /\ \E p \in InFlightNow : \E q \in BagToSet(pending') :
                     /\ p.kind = "picker" /\ q.kind = "handles"
                     /\ pending' = (pending (-) SetToBag({p})) (+) SetToBag({q})
       /\ last'.h = "handlesResolved" =>
              LET files == last'.files
                  passing == PassingOf(files)
                  over == OverLimit(Len(passing))
              IN  /\ DropObservers'
                  /\ calls'[Len(calls')] = Did("dispatch:closeDialog")
                  /\ Count(Ops(calls'), "dispatch:closeDialog") = 1
                  /\ ~state'.isFileDialogActive
                  /\ state'.acceptedFiles = (IF over THEN <<>> ELSE passing)
                  /\ RejectedFiles(state'.fileRejections)
                       = FailingOf(files) \o (IF over THEN passing ELSE <<>>)
      ]_vars

C15_Witness ==
    /\ last.h = "handlesResolved"
    /\ ~state.isFileDialogActive
    /\ state.acceptedFiles # <<>>
    /\ state.fileRejections # <<>>
    /\ Ops(calls) = <<"dispatch:setFiles", "onDrop", "onDropRejected",
                      "onDropAccepted", "dispatch:closeDialog">>

\* C16: when the promise of the picker rejects with a SecurityError,
\* fsAccessApiWorksRef becomes false and either the hidden input exists, is
\* emptied and clicked and onError is not invoked, or it does not exist and
\* onError is invoked once; from then on the flag stays false and every
\* open() clicks the hidden input, if there is one, and never calls the picker.
C16_SecurityFallback ==
    [][/\ last'.h = "pickerSecurityError" =>
              /\ ~fsAccessApiWorks'
              /\ state' = state
              /\ IF cfg.hasInput
                 THEN calls' = <<Did("input.click")>> /\ inputEmpty'
                 ELSE calls' = <<Did("onError")>>
       /\ ~fsAccessApiWorks => ~fsAccessApiWorks'
       /\ (last'.h = "openFileDialog" /\ ~fsAccessApiWorks) =>
              /\ Count(Ops(calls'), "showOpenFilePicker") = 0
              /\ pending' = pending
              /\ IF cfg.hasInput
                 THEN calls' = <<Did("dispatch:openDialog"), Did("onFileDialogOpen"),
                                 Did("input.click")>>
                 ELSE calls' = <<>>
      ]_vars

C16_Witness ==
    /\ last.h = "openFileDialog"
    /\ fsAccessApiWorksRef(cfg)
    /\ ~fsAccessApiWorks
    /\ Count(Ops(calls), "input.click") = 1

\* C17: fsAccessApiWorksRef is true only if the context is secure, the
\* consumer opted in and the browser has the picker, and once it is false it
\* is never true again.
C17_OneWay ==
    /\ [](fsAccessApiWorks =>
              /\ cfg.isSecureContext
              /\ cfg.useFsAccessApi
              /\ cfg.canUseFileSystemAccessAPI)
    /\ [][~fsAccessApiWorks => ~fsAccessApiWorks']_vars

C17_Witness ==
    /\ cfg.isSecureContext /\ cfg.useFsAccessApi /\ cfg.canUseFileSystemAccessAPI
    /\ ~fsAccessApiWorks
    /\ last.h = "handlesResolved"

\* C18: a focus event of the window sets a timeout if fsAccessApiWorksRef is
\* false and isFileDialogActive is true, and does nothing otherwise; when a
\* timeout fires, if the hidden input has no files closeDialog is dispatched
\* (isFileDialogActive becomes false) and the cancel observer is invoked, and
\* if it has files nothing happens.
C18_Refocus ==
    [][/\ last'.h = "onWindowFocus" =>
              /\ timers' = (IF ~fsAccessApiWorks /\ state.isFileDialogActive
                            THEN timers + 1 ELSE timers)
              /\ state' = state
              /\ calls' = <<>>
       /\ last'.h = "onWindowFocusTimeout" =>
              /\ timers > 0
              /\ IF cfg.hasInput /\ inputEmpty
                 THEN /\ ~state'.isFileDialogActive
                      /\ state' = [state EXCEPT !.isFileDialogActive = FALSE]
                      /\ calls' = <<Did("dispatch:closeDialog"),
                                    Did("onFileDialogCancel")>>
                 ELSE /\ state' = state
                      /\ calls' = <<>>
      ]_vars

C18_Witness ==
    /\ last.h = "onWindowFocusTimeout"
    /\ cfg.hasInput
    /\ ~inputEmpty
    /\ state.acceptedFiles # <<>>
    /\ calls = <<>>

\* the files dropped, those inside directories included
RECURSIVE leavesOf(_)
RECURSIVE leavesOfAll(_)
leavesOfAll(entries) ==
    IF entries = <<>>
    THEN <<>>
    ELSE leavesOf(Head(entries)) \o leavesOfAll(Tail(entries))

leavesOf(entry) ==
    IF "isDirectory" \in DOMAIN entry
    THEN leavesOfAll(entry.batches[1]) \o leavesOfAll(entry.batches[2])
    ELSE <<entry>>

Names(files) == [i \in DOMAIN files |-> files[i].name]

Dropped(dt) ==
    IF dt.hasItems
    THEN LET fileItems == SelectSeq(dt.items, LAMBDA it : it.kind = "file")
         IN  leavesOfAll([i \in DOMAIN fileItems |-> fileItems[i].entry])
    ELSE dt.files

\* C20: the output of the extractor for a drop holds no file called
\* .DS_Store or Thumbs.db, and holds every other dropped file, as often as it
\* was dropped, wherever it was: among the items, in the flat list of files
\* or in a directory at any depth.
C20_NoIgnoredFiles ==
    (calls # <<>> /\ calls[1].op = "getDataTransferFiles") =>
        LET dropped == Names(Dropped(calls[1].a))
            out == Names(calls[1].r)
        IN  /\ \A i \in DOMAIN out : out[i] \notin FILES_TO_IGNORE
            /\ \A n \in Range(dropped) \ FILES_TO_IGNORE :
                   Count(out, n) = Count(dropped, n)
            /\ Range(out) \subseteq Range(dropped)

C20_Witness ==
    /\ calls # <<>>
    /\ calls[1].op = "getDataTransferFiles"
    /\ calls[1].a.hasItems
    /\ Len(calls[1].a.items) = 3
    /\ Names(Dropped(calls[1].a))
         = << <<".","D","S","_","S","t","o","r","e">>,
              <<"a",".","p","n","g">>,
              <<"a",".","p","n","g">>,
              <<"T","h","u","m","b","s",".","d","b">>,
              <<"T","h","u","m","b","s",".","d","b">> >>
    /\ Len(calls[1].r) = 2

\* the part of a MIME type or of an entry before its first '/'
PrimaryType(s) ==
    LET slashes == { i \in DOMAIN s : s[i] = "/" }
    IN  IF slashes = {} THEN s
        ELSE SubSeq(s, 1, (CHOOSE i \in slashes : \A j \in slashes : i <= j) - 1)

IsSuffix(suffix, s) ==
    /\ Len(suffix) <= Len(s)
    /\ \A i \in DOMAIN suffix : s[Len(s) - Len(suffix) + i] = suffix[i]

\* the rule of C21 for one entry, the entry and the file's name and type as
\* they are to be compared
EntryMatches(name, type, entry) ==
    IF entry # <<>> /\ entry[1] = "."
    THEN IsSuffix(entry, name)
    ELSE IF IsSuffix(<<"/","*">>, entry)
         THEN PrimaryType(type) = PrimaryType(entry)
         ELSE type = entry

\* the result C21 expects of fileAccepted
AcceptedAs(accepted) ==
    calls[1].r = [ok |-> accepted,
                  err |-> IF accepted THEN <<>> ELSE <<ErrInvalidType>>]

\* C21 as claimed: the entries are taken as written; the name is compared
\* without regard to case with an entry that starts with '.', the MIME type
\* without regard to case with an entry that is a MIME type, and the primary
\* types are compared as they are.
C21_FileAcceptedAsClaimed ==
    (calls # <<>> /\ calls[1].op = "fileAccepted") =>
        LET file == calls[1].a.file
            accept == calls[1].a.accept
        IN  AcceptedAs(
                \/ file.type = MozFile
                \/ ~accept.set
                \/ accept.types = <<>>
                \/ \E i \in DOMAIN accept.types :
                       LET entry == accept.types[i]
                       IN  IF entry # <<>> /\ entry[1] = "."
                           THEN IsSuffix(toLowerCase(entry), toLowerCase(file.name))
                           ELSE IF IsSuffix(<<"/","*">>, entry)
                                THEN PrimaryType(file.type) = PrimaryType(entry)
                                ELSE toLowerCase(file.type) = toLowerCase(entry))

\* C21 amended: every entry is first trimmed of blanks and put in lower case,
\* and the file's name and MIME type are put in lower case, for all three
\* kinds of entry.
C21_FileAccepted ==
    (calls # <<>> /\ calls[1].op = "fileAccepted") =>
        LET file == calls[1].a.file
            accept == calls[1].a.accept
        IN  AcceptedAs(
                \/ file.type = MozFile
                \/ ~accept.set
                \/ accept.types = <<>>
                \/ \E i \in DOMAIN accept.types :
                       EntryMatches(toLowerCase(file.name), toLowerCase(file.type),
                                    toLowerCase(trim(accept.types[i]))))

C21_Witness ==
    /\ calls # <<>>
    /\ calls[1].op = "fileAccepted"
    /\ calls[1].a.file.name = <<"c",".","P","N","G">>
    /\ calls[1].a.file.type = TextPlain
    /\ calls[1].a.accept.types = <<ImageAny, DotPNG>>
    /\ calls[1].r.ok

\* C22: a file of unknown size matches; otherwise the file fails iff its
\* size is above maxSize or below minSize, an undefined bound being no bound;
\* the error is too-large whenever the size is above maxSize, too-small
\* when it is not and the size is below minSize.
C22_FileMatchSize ==
    (calls # <<>> /\ calls[1].op = "fileMatchSize") =>
        LET size == calls[1].a.size
            minSize == calls[1].a.minSize
            maxSize == calls[1].a.maxSize
            known == size.k = "num"
            tooLarge == known /\ maxSize.k = "num" /\ size.n > maxSize.n
            tooSmall == known /\ minSize.k = "num" /\ size.n < minSize.n
        IN  /\ calls[1].r.ok = (~tooLarge /\ ~tooSmall)
            /\ calls[1].r.err =
                 (IF tooLarge THEN <<ErrTooLarge(maxSize)>>
                  ELSE IF tooSmall THEN <<ErrTooSmall(minSize)>> ELSE <<>>)

C22_Witness ==
    /\ calls # <<>>
    /\ calls[1].op = "fileMatchSize"
    /\ calls[1].a = [size |-> Num(2), minSize |-> Num(3), maxSize |-> Num(1)]
    /\ calls[1].r = [ok |-> FALSE, err |-> <<ErrTooLarge(Num(1))>>]

Dispatched(type) ==
    /\ calls # <<>>
    /\ calls[1].op = "reducer"
    /\ calls[1].a.action.type = type

\* the state is the one before but for the fields named
ChangesOnly(fields) ==
    \A f \in DOMAIN calls[1].a.s \ fields : calls[1].r[f] = calls[1].a.s[f]

\* C24: reset is idempotent: whatever the state it is applied to, reset gives
\* the initial state, and reset applied to its own result gives that result.
C24_ResetIdempotent ==
    Dispatched("reset") =>
        /\ calls[1].r = initialState
        /\ reducer(calls[1].r, [type |-> "reset"]) = calls[1].r
        /\ reducer(reducer(calls[1].a.s, [type |-> "reset"]), [type |-> "reset"])
             = reducer(calls[1].a.s, [type |-> "reset"])

C24_Witness ==
    /\ Dispatched("reset")
    /\ calls[1].a.s.isFocused
    /\ calls[1].a.s.isDragActive
    /\ calls[1].a.s.acceptedFiles # <<>>
    /\ state = initialState

\* C25: the reducer is the transition table and nothing more: focus and blur
\* change only isFocused, closeDialog only isFileDialogActive, setDraggedFiles
\* only the three drag flags, setFiles only acceptedFiles and fileRejections;
\* openDialog gives the initial state with isFileDialogActive set, reset the
\* initial state, and an unknown action the state it was given.
C25_TransitionTable ==
    /\ Dispatched("focus") =>
          ChangesOnly({"isFocused"}) /\ calls[1].r.isFocused
    /\ Dispatched("blur") =>
          ChangesOnly({"isFocused"}) /\ ~calls[1].r.isFocused
    /\ Dispatched("closeDialog") =>
          ChangesOnly({"isFileDialogActive"}) /\ ~calls[1].r.isFileDialogActive
    /\ Dispatched("setDraggedFiles") =>
          /\ ChangesOnly({"isDragActive", "isDragAccept", "isDragReject"})
          /\ calls[1].r.isDragActive = calls[1].a.action.isDragActive
          /\ calls[1].r.isDragAccept = calls[1].a.action.isDragAccept
          /\ calls[1].r.isDragReject = calls[1].a.action.isDragReject
    /\ Dispatched("setFiles") =>
          /\ ChangesOnly({"acceptedFiles", "fileRejections"})
          /\ calls[1].r.acceptedFiles = calls[1].a.action.acceptedFiles
          /\ calls[1].r.fileRejections = calls[1].a.action.fileRejections
    /\ Dispatched("openDialog") =>
          /\ calls[1].r.isFileDialogActive
          /\ ~calls[1].r.isFocused
          /\ ~calls[1].r.isDragActive
          /\ ~calls[1].r.isDragAccept
          /\ ~calls[1].r.isDragReject
          /\ calls[1].r.acceptedFiles = <<>>
          /\ calls[1].r.fileRejections = <<>>
    /\ Dispatched("reset") => calls[1].r = initialState
    /\ Dispatched("unknown") => calls[1].r = calls[1].a.s
    /\ (calls # <<>> /\ calls[1].op = "reducer") => state = calls[1].r

C25_Witness ==
    /\ Dispatched("blur")
    /\ calls[1].a.s.isFocused
    /\ calls[1].a.s.isDragActive
    /\ calls[1].a.s.isFileDialogActive
    /\ calls[1].a.s.acceptedFiles # <<>>
    /\ state = [calls[1].a.s EXCEPT !.isFocused = FALSE]

ObserverOps ==
    {"onDragEnter", "onDragOver", "onDragLeave", "onDrop", "onDropAccepted",
     "onDropRejected"}

\* C23: a dragenter, dragover, dragleave or drop event whose payload has no
\* file type invokes none of onDragEnter, onDragOver, onDragLeave, onDrop,
\* onDropAccepted, onDropRejected, and starts no extraction that could invoke
\* one later; every step that invokes one of them belongs to an event with
\* files.
C23_OnlyWithFiles ==
    [][/\ (/\ last'.h \in {"onDragEnterCb", "onDragOverCb", "onDragLeaveCb",
                           "onDropCb"}
           /\ ~last'.hasFiles)
          => /\ \A i \in DOMAIN calls' : calls'[i].op \notin ObserverOps
             /\ pending' = pending
       /\ (\E i \in DOMAIN calls' : calls'[i].op \in ObserverOps)
          => last'.hasFiles]_vars

C23_Witness ==
    /\ last.h = "onDragLeaveCb"
    /\ ~last.hasFiles
    /\ dragTargets = <<>>
    /\ calls = <<Did("dispatch:setDraggedFiles")>>
    /\ pending # EmptyBag

\* the continuation of the last step returned early: propagation had been
\* stopped and the surface does not swallow drag events itself
ReturnedEarly(step) == step.stopped /\ ~cfg.noDragEventsBubbling

\* C26: nothing suppresses a stale probe: the continuation of a dragenter
\* whose propagation was not stopped applies setDraggedFiles with
\* isDragActive = true whatever the hovered-target list and the flags are,
\* also when a dragleave has emptied the list and cleared the flags; and once
\* isDragActive is true with an empty list, it stays true until a dragleave,
\* a run of the drop handler or the opening of the dialog.
C26_StaleProbe ==
    [][/\ (last'.h = "dragEnterResolved" /\ ~ReturnedEarly(last'))
          => /\ state'.isDragActive
             /\ dragTargets' = dragTargets
       /\ (state.isDragActive /\ dragTargets = <<>> /\ ~state'.isDragActive)
          => last'.h \in {"onDragLeaveCb", "onDropCb", "openFileDialog"}]_vars

C26_Witness ==
    /\ last.h = "dragEnterResolved"
    /\ state.isDragActive
    /\ dragTargets = <<>>
    /\ pending = EmptyBag
    /\ state.acceptedFiles = <<>>
    /\ state.fileRejections = <<>>

\* C27: the resolution of an extraction is applied with no generation check:
\* whenever the continuation of a drop runs setFiles, acceptedFiles and
\* fileRejections become the partition of the batch of that very extraction,
\* whatever else is in flight, whichever drop came first and whatever the
\* state is, also right after a reset or the opening of the dialog.
C27_LastWriteWins ==
    [][(last'.h = "dropResolved" /\ ~ReturnedEarly(last'))
          => /\ state'.acceptedFiles =
                  (IF OverLimit(Len(PassingOf(last'.files)))
                   THEN <<>> ELSE PassingOf(last'.files))
             /\ Range(state'.acceptedFiles)
                  \cup Range(RejectedFiles(state'.fileRejections))
                  = Range(last'.files)
             /\ Len(state'.acceptedFiles) + Len(state'.fileRejections)
                  = Len(last'.files)]_vars

\* two drops in flight together, the second of them resolved first
C27_Witness ==
    /\ last.h = "dropResolved"
    /\ last.files # <<>>
    /\ last.files[1].name = FileB.name
    /\ state.acceptedFiles = <<>>
    /\ Len(state.fileRejections) = 1
    /\ pending = SetToBag({InFlight("drop", <<FileA>>, FALSE)})

\* the full paths of the files of an entry, of the entries of a batch and of
\* the batches of a directory: batch after batch, entry after entry, a
\* directory among the entries standing for its own files
RECURSIVE listingOf(_, _)
RECURSIVE listingOfEntries(_, _)
RECURSIVE listingOfBatches(_, _)
listingOf(entry, parent) ==
    IF "isDirectory" \in DOMAIN entry
    THEN listingOfBatches(entry.batches, parent \o <<"/">> \o entry.name)
    ELSE <<parent \o <<"/">> \o entry.name>>

listingOfEntries(entries, parent) ==
    IF entries = <<>>
    THEN <<>>
    ELSE listingOf(Head(entries), parent) \o listingOfEntries(Tail(entries), parent)

listingOfBatches(batches, parent) ==
    IF batches = <<>>
    THEN <<>>
    ELSE listingOfEntries(Head(batches), parent)
           \o listingOfBatches(Tail(batches), parent)

PathsOfFiles(files) == [i \in DOMAIN files |-> files[i].path.v]

\* C28: the promise of a directory resolves only after the empty batch has
\* been received and every entry of every batch has resolved; and the
\* flattened result of the dropped directory lists every file of every batch
\* exactly once, in batch order and in entry order within a batch, a
\* sub-directory expanded in place, whatever the order in which the reads of
\* the entries completed.
C28_DirectoryOrder ==
    /\ \A d \in DOMAIN reads.delivered :
           reads.settled[d].set =>
               LET batches == nodeAt(reads.tree, d).batches
               IN  /\ reads.delivered[d] = Len(batches) + 1
                   /\ \A b \in DOMAIN batches : \A i \in DOMAIN batches[b] :
                          reads.settled[d \o <<b, i>>].set
    /\ (reads.tree # <<>> /\ reads.settled[<<>>].set) =>
           LET out == PathsOfFiles(flatten(<<reads.settled[<<>>].v>>))
           IN  /\ out = listingOf(reads.tree, <<>>)
               /\ \A i, j \in DOMAIN out : out[i] = out[j] => i = j
               /\ flatten(<<reads.settled[<<>>].v>>)
                    = flatten(<<fromEntry(reads.tree, <<>>)>>)

C28_Witness ==
    /\ reads.tree = DirEntry(<<"d">>, << <<FileA, SubDir>>, <<FileB>> >>)
    /\ reads.settled[<<>>].set
    /\ reads.order[1] = <<2, 1>>
    /\ reads.order[2] = <<1, 2, 2, 1>>
    /\ Len(flatten(<<reads.settled[<<>>].v>>)) = 4

\* C29: when the handler the caller passed to getRootProps stops
\* propagation, or propagation is stopped before the composed handler is
\* called, the handler of the module does not run: the step changes neither
\* InteractionState nor the hovered-target list, starts no extraction and
\* invokes no observer.  Otherwise the handler of the module runs, after
\* the caller's.
C29_Composed ==
    [][IF cfg.rootHandler = "stops" \/ cfg.arrivesStopped
       THEN /\ state' = state
            /\ dragTargets' = dragTargets
            /\ pending' = pending
            /\ calls' = <<>>
       ELSE last'.h # "composeEventHandlers"]_vars

C29_Witness ==
    /\ cfg.rootHandler = "stops"
    /\ ~cfg.arrivesStopped
    /\ last.h = "composeEventHandlers"
    /\ last.hasFiles
    /\ last.target = "child"
    /\ state = initialState
    /\ dragTargets = <<>>
    /\ pending = EmptyBag

Occurrences(targets, t) == Cardinality({ i \in DOMAIN targets : targets[i] = t })

\* s without its first n elements equal to t
RECURSIVE WithoutFirst(_, _, _)
WithoutFirst(s, t, n) ==
    IF s = <<>> THEN <<>>
    ELSE IF n > 0 /\ Head(s) = t THEN WithoutFirst(Tail(s), t, n - 1)
         ELSE <<Head(s)>> \o WithoutFirst(Tail(s), t, n)

StillContained(t) == t \in attached

\* C30: a dragleave takes at most one occurrence of its target out of the
\* hovered-target list, the first one, and keeps the other targets that the
\* root contains in their order; a target that the root contains and that
\* is in the list twice or more is still in it after the dragleave, which
\* then clears no flag and invokes nothing; and the targets that the root
\* does not contain any more are dropped from the list on every dragleave.
C30_OneOccurrence ==
    [][last'.h = "onDragLeaveCb" =>
          LET t == last'.target
              kept == SelectSeq(dragTargets, StillContained)
          IN  /\ dragTargets' = WithoutFirst(kept, t, 1)
              /\ \A x \in Range(dragTargets') : x \in attached
              /\ Occurrences(dragTargets', t) >= Occurrences(kept, t) - 1
              /\ (t \in attached /\ Occurrences(dragTargets, t) >= 2)
                    => /\ t \in Range(dragTargets')
                       /\ state' = state
                       /\ calls' = <<>>]_vars

\* two dragenters on the child, their probe applied, then one dragleave on it
C30_Witness ==
    /\ last.h = "onDragLeaveCb"
    /\ last.target = "child"
    /\ dragTargets = <<"child">>
    /\ "child" \in attached
    /\ state.isDragActive
    /\ calls = <<>>

\* the drag is active and neither accepted nor rejected
ActiveOnly(s) == s.isDragActive /\ ~s.isDragAccept /\ ~s.isDragReject

\* C31: isDragAccept and isDragReject are never both true, and isDragActive
\* is true whenever one of them is; the state with isDragActive true and
\* both of them false arises only from the continuation of a dragenter whose
\* extraction returned no files, and a continuation that found files never
\* leaves it behind.
C31_DragFlags ==
    [][/\ ~(state'.isDragAccept /\ state'.isDragReject)
       /\ (state'.isDragAccept \/ state'.isDragReject) => state'.isDragActive
       /\ (ActiveOnly(state') /\ ~ActiveOnly(state))
             => (last'.h = "dragEnterResolved" /\ last'.files = <<>>)
       /\ (/\ last'.h = "dragEnterResolved"
           /\ ~ReturnedEarly(last')
           /\ last'.files # <<>>)
             => (state'.isDragAccept # state'.isDragReject)]_vars

C31_Witness ==
    /\ last.h = "dragEnterResolved"
    /\ last.files = <<>>
    /\ ActiveOnly(state)
    /\ dragTargets # <<>>
    /\ \E p \in InFlightNow : p.kind = "dragenter" /\ p.files = <<FileB>>

\* C32: once the promise of the picker has settled, with success (the
\* extraction of the handles has run setFiles), with a cancellation or with
\* a failure that is neither a cancellation nor a security failure,
\* isFileDialogActive is false.
C32_DialogEndsInactive ==
    [][last'.h \in {"handlesResolved", "pickerAborted", "pickerFailed"}
          => ~state'.isFileDialogActive]_vars

\* C33: with the hidden input, the cancel observer is invoked at most once
\* for an opening of the dialog, however often the window is focused again
\* while the dialog is active: a timeout that invokes the cancel observer
\* finds the dialog still active, that is, not yet cancelled since it was
\* opened (nothing but a cancellation clears isFileDialogActive while the
\* input is empty).
C33_CancelOnce ==
    [][Count(Ops(calls'), "onFileDialogCancel") > 0
          => state.isFileDialogActive]_vars

\* the steps that are a user event dispatched on the surface (the others are
\* the continuations of earlier events and a render with changed props)
UserEvent(step) == step.h \notin {"dragEnterResolved", "dropResolved", "propsChanged"}

KeyboardProps == {"onKeyDown", "onFocus", "onBlur"}
DragProps == {"onDragEnter", "onDragOver", "onDragLeave", "onDrop"}

\* the handler props of the surface that are null under the configuration c,
\* open counted as one of them
RemovedProps(c) ==
    {k \in DOMAIN getRootProps(c) : getRootProps(c)[k] = "null"}
        \cup (IF getInputProps(c).onChange = "null" THEN {"onChange"} ELSE {})
        \cup (IF open(c) = "null" THEN {"open"} ELSE {})

AllProps == KeyboardProps \cup DragProps \cup {"onClick", "onChange", "open"}

\* C34: while disabled is true the surface exposes no handler (keyboard,
\* focus, click, drag, drop, input change) and open is null, so a user event
\* dispatched then applies no transition and invokes no observer, and the
\* reported isFocused is false whatever the stored one is; with noDrag alone
\* exactly the four drag handlers are removed, and with noKeyboard the
\* keydown, focus and blur handlers are removed, so that isFocused is never
\* set.
C34_Surface ==
    [][/\ cfg.disabled =>
            /\ RemovedProps(cfg) = AllProps
            /\ ~returnedState(state, cfg).isFocused
            /\ UserEvent(last') =>
                  /\ last'.h = "noHandler"
                  /\ calls' = <<>>
                  /\ UNCHANGED <<state, dragTargets, pending, timers, inputEmpty>>
       /\ ~cfg.disabled =>
            /\ RemovedProps(cfg) = (IF cfg.noDrag THEN DragProps ELSE {})
                                      \cup (IF cfg.noKeyboard THEN KeyboardProps ELSE {})
            /\ (UserEvent(last') /\ last'.h = "noHandler") =>
                  last'.target \in RemovedProps(cfg)
            /\ returnedState(state, cfg).isFocused = state.isFocused
       /\ (cfg.noDrag /\ UserEvent(last')) =>
            /\ last'.h \notin {"onDragEnterCb", "onDragOverCb", "onDragLeaveCb"}
            /\ \A q \in BagToSet(pending') :
                  q.kind \in {"dragenter", "drop"} => q \in BagToSet(pending)
            /\ dragTargets' = dragTargets
       /\ cfg.noKeyboard =>
            /\ last'.h \notin {"onFocusCb", "onBlurCb", "onKeyDownCb"}
            /\ ~state.isFocused /\ ~state'.isFocused]_vars

\* a focused dropzone with its dialog open was disabled, and a drop on it
\* found no handler
C34_Witness ==
    /\ cfg.disabled
    /\ state.isFocused
    /\ ~returnedState(state, cfg).isFocused
    /\ last.h = "noHandler"
    /\ last.target = "onDrop"
    /\ ~cfg.noDrag /\ ~cfg.noKeyboard
    /\ state.isFileDialogActive

====
